---- MODULE Spec2Model ----
(***************************************************************************)
(* Verification model of the Ecosystem Integrity Index core:               *)
(*   - eii.compute.integrity.combine_components and its caller             *)
(*     eii.client.retrieve.get_layers                                      *)
(*   - eii.compute.modulation.core (NC score and NC modulation)            *)
(*   - eii.compute.npp (functional-integrity scores, percentile table)    *)
(*   - eii.client.retrieve.get_stats, eii.client.analysis.compare_methods *)
(*     and eii.client.modulation (get_modulated_eii, get_nc_score)        *)
(*                                                                         *)
(* Numbers are exact rationals <<numerator, denominator>> (denominator     *)
(* > 0).  The result of combine_components is a value rad^(1/deg), so the  *)
(* cube root taken by geometric_mean is kept exact.  An ee.Image is        *)
(* modelled by the value of one pixel: every image operation used here is  *)
(* defined per pixel.                                                      *)
(***************************************************************************)
EXTENDS Integers, Sequences, FiniteSets, TLC

\* args: the inputs of the calls; op: the last call (and, for a call that
\* waits, its position); ret: what it returned;
\* _NPP_DIFF_PERCENTILES_CACHE: the module-level cache of eii.compute.npp;
\* ee_calls: the Earth Engine requests the last call made, in order;
\* ASSETS: the module-level dictionary of eii.client.assets; heap: the list
\* objects its entries refer to; info: the dictionary a caller of
\* get_asset_info holds; tasks: the state of the Earth Engine batch tasks
VARIABLES args, op, ret, _NPP_DIFF_PERCENTILES_CACHE, ee_calls, ASSETS, heap, info, tasks

vars == <<args, op, ret, _NPP_DIFF_PERCENTILES_CACHE, ee_calls, ASSETS, heap, info, tasks>>

(***************************************************************************)
(* Bounds of the model.                                                    *)
(***************************************************************************)
\* components are drawn from {0, 1/GridDen, ..., 1}
GridDen == 10
\* KPIs are drawn from {0, 1/KpiDen, ..., 1}
KpiDen == 2
\* base EII values are drawn from {0, 1/EiiDen, ..., 1}
EiiDen == 50
\* NC scores are drawn from {0, 1/NcDen, ..., 1}
NcDen == 4

(***************************************************************************)
(* Exact rational arithmetic (Python float / Earth Engine arithmetic       *)
(* without rounding).                                                      *)
(***************************************************************************)
Abs(n) == IF n < 0 THEN -n ELSE n

RECURSIVE GCD(_, _)
GCD(a, b) == IF b = 0 THEN a ELSE GCD(b, a % b)

Norm(q) ==
    LET g == GCD(Abs(q[1]), q[2])
    IN  <<q[1] \div g, q[2] \div g>>

\* sums are taken over the least common denominator
RAdd(p, q) ==
    LET g == GCD(p[2], q[2])
    IN  Norm(<<p[1] * (q[2] \div g) + q[1] * (p[2] \div g),
               (p[2] \div g) * q[2]>>)
RSub(p, q) ==
    LET g == GCD(p[2], q[2])
    IN  Norm(<<p[1] * (q[2] \div g) - q[1] * (p[2] \div g),
               (p[2] \div g) * q[2]>>)
RMul(p, q) == Norm(<<p[1] * q[1], p[2] * q[2]>>)
RLe(p, q) == p[1] * q[2] <= q[1] * p[2]
RLt(p, q) == p[1] * q[2] < q[1] * p[2]
REq(p, q) == Norm(p) = Norm(q)
RAbs(p) == <<Abs(p[1]), p[2]>>
RMin(p, q) == IF RLt(q, p) THEN q ELSE p
RMax(p, q) == IF RLt(p, q) THEN q ELSE p

Zero == <<0, 1>>
One == <<1, 1>>
Half == <<1, 2>>
InUnit(p) == RLe(Zero, p) /\ RLe(p, One)

Grid(den) == {Norm(<<k, den>>) : k \in 0..den}

(***************************************************************************)
(* Results of calls.                                                       *)
(***************************************************************************)
Ok(v) == [ok |-> TRUE, value |-> v]
Raise(e) == [ok |-> FALSE, error |-> e]
NoResult == [ok |-> FALSE, error |-> "not called"]

\* an optional value: Python's None, or a value
None == [given |-> FALSE, val |-> <<>>]
Some(v) == [given |-> TRUE, val |-> v]

(***************************************************************************)
(* eii/client/assets.py.  A Python dict is a function from its keys; a     *)
(* list is an object of the heap, and a dict entry holding a list holds a  *)
(* reference to that object.                                               *)
(***************************************************************************)
client_assets == <<ASSETS, heap, info>>

EII_ASSET_ROOT == "projects/landler-open-data/assets/eii"
EII_ASSET_BASE == EII_ASSET_ROOT

Ref(id) == [ref |-> id]

\* the keys of ASSETS, in insertion order
AssetKeys ==
    <<"eii", "components", "structural_core_area", "npp_predictions",
      "npp_model">>

\* the list objects created by the literal: the 'bands' of the first four
\* entries
HeapAtImport ==
    <<  <<"eii">>,
        <<"functional_integrity", "structural_integrity",
          "compositional_integrity">>,
        <<"structural_integrity">>,
        <<"potential_npp", "actual_npp", "relative_npp", "npp_difference">>  >>

AssetsLiteral ==
    [name \in {AssetKeys[i] : i \in DOMAIN AssetKeys} |->
        IF name = "eii"
        THEN [path |-> EII_ASSET_BASE \o "/global/eii_global_v1",
              description |-> "Combined Ecosystem Integrity Index",
              resolution |-> 300,
              bands |-> Ref(1),
              default_band |-> "eii"]
        ELSE IF name = "components"
        THEN [path |-> EII_ASSET_BASE \o "/global/eii_global_v1",
              description |-> "EII components from the global multiband asset",
              resolution |-> 300,
              bands |-> Ref(2)]
        ELSE IF name = "structural_core_area"
        THEN [path |-> EII_ASSET_BASE
                           \o "/products/v1/structural_integrity/core_area",
              description |-> "Structural integrity (quality-weighted core area)",
              resolution |-> 300,
              bands |-> Ref(3)]
        ELSE IF name = "npp_predictions"
        THEN [path |-> EII_ASSET_BASE \o "/predictions/npp",
              description |-> "NPP model predictions",
              resolution |-> 300,
              bands |-> Ref(4)]
        ELSE [path |-> EII_ASSET_BASE \o "/models/potential_npp_classifier",
              description |-> "Trained NPP potential model",
              type |-> "classifier"]]

\* the state of the module after import, nothing handed out yet
AssetsAtImport ==
    /\ ASSETS = AssetsLiteral
    /\ heap = HeapAtImport
    /\ info = [given |-> FALSE, val |-> <<>>]

\* KeyError(f"Unknown asset '{asset_name}'. Available: {available}")
UnknownAsset(asset_name, available) ==
    [ok |-> FALSE, error |-> "KeyError: Unknown asset",
     named |-> asset_name, available |-> available]

\* a str object; the results of get_asset_path and get_asset_info are both
\* objects, a str and a dict
Str(s) == [str |-> s]

get_asset_path(asset_name, assets) ==
    IF asset_name \notin DOMAIN assets
    THEN UnknownAsset(asset_name, AssetKeys)
    ELSE Ok(Str(assets[asset_name]["path"]))

\* dict.copy(): a new dict whose entries hold the same values, the
\* references to list objects included
DictCopy(d) == d

get_asset_info(asset_name, assets) ==
    IF asset_name \notin DOMAIN assets
    THEN UnknownAsset(asset_name, AssetKeys)
    ELSE Ok(DictCopy(assets[asset_name]))

\* d[key] = value
SetItem(d, key, value) ==
    [k \in (DOMAIN d) \cup {key} |-> IF k = key THEN value ELSE d[k]]
\* del d[key]
DelItem(d, key) == [k \in (DOMAIN d) \ {key} |-> d[k]]

(***************************************************************************)
(* eii/compute/settings.py, eii/compute/integrity.py                       *)
(***************************************************************************)
DEFAULT_AGGREGATION_METHOD == "min_fuzzy_logic"

\* a parameter the caller did not pass
Omitted == "<omitted>"

\* a minimum that reads only the first two bands
ReduceMinTwoBands(a, b, c) == RMin(a, b)
\* ee.Reducer.min / median / max / product over the three bands of a pixel
ReduceMin(a, b, c) == RMin(RMin(a, b), c)
ReduceMax(a, b, c) == RMax(RMax(a, b), c)
ReduceMedian(a, b, c) ==
    IF RLe(a, b)
    THEN IF RLe(b, c) THEN b ELSE IF RLe(a, c) THEN c ELSE a
    ELSE IF RLe(a, c) THEN a ELSE IF RLe(b, c) THEN c ELSE b
ReduceProduct(a, b, c) == RMul(RMul(a, b), c)

\* a pixel value rad^(1/deg); deg = 1 is the plain rational rad
Root(rad, deg) == [rad |-> rad, deg |-> deg]

\* a slip in the exponent: the square root instead of the cube root
PowHalf(p) == Root(p, 2)
\* ee.Image.pow(1.0 / 3.0)
PowThird(p) == Root(p, 3)

\* a fuzzy sum that forgets the product term
FuzzySumNoProduct(y, z) == RAdd(y, z)
\* F = y + z - y*z
FuzzySum(y, z) == RSub(RAdd(y, z), RMul(y, z))

\* an unknown method silently replaced by the default one
combine_components_defaulting(functional, structural, compositional, methodArg) ==
    LET known == {"minimum", "product", "min_fuzzy_logic", "geometric_mean"}
        method == IF methodArg \in known THEN methodArg
                  ELSE DEFAULT_AGGREGATION_METHOD
        M   == ReduceMin(functional, structural, compositional)
        Med == ReduceMedian(functional, structural, compositional)
        Max == ReduceMax(functional, structural, compositional)
    IN  IF method = "minimum"
        THEN Ok(Root(M, 1))
        ELSE IF method = "product"
        THEN Ok(Root(ReduceProduct(functional, structural, compositional), 1))
        ELSE IF method = "min_fuzzy_logic"
        THEN Ok(Root(RMul(M, FuzzySum(Med, Max)), 1))
        ELSE Ok(PowThird(ReduceProduct(functional, structural, compositional)))

combine_components(functional, structural, compositional, methodArg) ==
    LET method == IF methodArg = Omitted THEN DEFAULT_AGGREGATION_METHOD
                  ELSE methodArg
        M   == ReduceMin(functional, structural, compositional)
        Med == ReduceMedian(functional, structural, compositional)
        Max == ReduceMax(functional, structural, compositional)
        F   == FuzzySum(Med, Max)
    IN  IF method = "minimum"
        THEN Ok(Root(M, 1))
        ELSE IF method = "product"
        THEN Ok(Root(ReduceProduct(functional, structural, compositional), 1))
        ELSE IF method = "min_fuzzy_logic"
        THEN Ok(Root(RMul(M, F), 1))
        ELSE IF method = "geometric_mean"
        THEN Ok(PowThird(ReduceProduct(functional, structural, compositional)))
        ELSE Raise("ValueError: Unknown method")

(***************************************************************************)
(* eii/client/retrieve.py: get_layers.  px holds the pixel values the      *)
(* external collaborators deliver: the three component layers and the      *)
(* pre-computed EII asset.                                                 *)
(***************************************************************************)
ComponentLayers(px) ==
    [k \in {"functional", "structural", "compositional"} |->
        Root(px[k], 1)]

\* an EII entry that replaces the dictionary instead of joining it
WithEiiOnly(result, eii) == [k \in {"eii"} |-> eii]
\* result["eii"] = ...
WithEii(result, eii) ==
    [k \in (DOMAIN result) \cup {"eii"} |->
        IF k = "eii" THEN eii ELSE result[k]]

RECURSIVE get_layers(_, _, _, _)
get_layers(layers, methodArg, compute_mode, px) ==
    LET aggregation_method == IF methodArg = Omitted THEN "min_fuzzy_logic"
                              ELSE methodArg
        include_eii == layers \in {"eii", "all"}
        include_components == layers \in {"components", "all"}
        \* lines 93-123: components is None when not include_components
        block == IF ~include_components THEN Ok(<<>>)
                 ELSE IF compute_mode = "precomputed" THEN Ok(ComponentLayers(px))
                 ELSE IF compute_mode = "on_the_fly" THEN Ok(ComponentLayers(px))
                 ELSE Raise("ValueError: compute_mode must be one of")
    IN  IF compute_mode = "precomputed" /\ aggregation_method # "min_fuzzy_logic"
        THEN Raise("ValueError: Only the pre-computed default method is available")
        ELSE IF ~block.ok THEN block
        ELSE IF ~include_eii THEN block
        ELSE IF compute_mode = "precomputed"
        THEN Ok(WithEii(block.value, Root(px.eii_asset, 1)))
        ELSE LET components == IF include_components THEN block
                               ELSE get_layers("components", aggregation_method,
                                               compute_mode, px)
             IN  IF ~components.ok THEN components
                 ELSE LET eii == combine_components(
                                     components.value["functional"].rad,
                                     components.value["structural"].rad,
                                     components.value["compositional"].rad,
                                     aggregation_method)
                      IN  IF ~eii.ok THEN eii
                          ELSE Ok(WithEii(block.value, eii.value))

(***************************************************************************)
(* eii/client/analysis.py: compare_methods.  The region is one pixel, so   *)
(* the mean over the region is the pixel value.                            *)
(***************************************************************************)
ComparedMethods == <<"minimum", "product", "min_fuzzy_logic", "geometric_mean">>

\* the loop over methods, from the i-th method on; result holds the means
\* set so far
RECURSIVE CompareFrom(_, _, _, _)
CompareFrom(i, result, compute_mode, px) ==
    IF i > Len(ComparedMethods) THEN Ok(result)
    ELSE LET method == ComparedMethods[i]
             layers == IF compute_mode \in {"precomputed", "on_the_fly"}
                       THEN get_layers("eii", method, compute_mode, px)
                       ELSE Raise("ValueError: compute_mode must be one of")
         IN  IF ~layers.ok THEN layers
             ELSE CompareFrom(i + 1,
                              [m \in (DOMAIN result) \cup {method} |->
                                  IF m = method THEN layers.value["eii"]
                                  ELSE result[m]],
                              compute_mode, px)

compare_methods(compute_mode, px) == CompareFrom(1, <<>>, compute_mode, px)

(***************************************************************************)
(* Specification of the component combiner: the inputs are drawn in Init,  *)
(* the actions call the functions on them.                                 *)
(***************************************************************************)
AggregationMethods == {"minimum", "product", "min_fuzzy_logic", "geometric_mean"}
MethodArgs == AggregationMethods \cup {Omitted, "mean"}
LayerSelections == {"eii", "components", "all"}
ComputeModes == {"precomputed", "on_the_fly", "cached"}
EiiAssetValues == {<<1, 4>>, <<3, 4>>}

InitCombine ==
    /\ args \in [functional : Grid(GridDen), structural : Grid(GridDen),
                 compositional : Grid(GridDen), method : MethodArgs,
                 eii_asset : EiiAssetValues]
    /\ op = [name |-> "init"]
    /\ ret = NoResult
    /\ _NPP_DIFF_PERCENTILES_CACHE = None
    /\ ee_calls = <<>>
    /\ AssetsAtImport
    /\ tasks = <<>>

CombineComponents ==
    /\ op' = [name |-> "combine_components"]
    /\ ret' = combine_components(args.functional, args.structural,
                                 args.compositional, args.method)
    /\ UNCHANGED <<args, _NPP_DIFF_PERCENTILES_CACHE, ee_calls, client_assets, tasks>>

GetLayers ==
    \E layers \in LayerSelections, compute_mode \in ComputeModes :
        /\ op' = [name |-> "get_layers", layers |-> layers,
                  compute_mode |-> compute_mode]
        /\ ret' = get_layers(layers, args.method, compute_mode, args)
        /\ UNCHANGED <<args, _NPP_DIFF_PERCENTILES_CACHE, ee_calls, client_assets, tasks>>

CompareMethods ==
    \E compute_mode \in ComputeModes :
        /\ op' = [name |-> "compare_methods", compute_mode |-> compute_mode]
        /\ ret' = compare_methods(compute_mode, args)
        /\ UNCHANGED <<args, _NPP_DIFF_PERCENTILES_CACHE, ee_calls, client_assets, tasks>>

NextCombine == CombineComponents \/ GetLayers \/ CompareMethods

SpecCombine == InitCombine /\ [][NextCombine]_vars

(***************************************************************************)
(* Properties of the component combiner.                                   *)
(***************************************************************************)
RECURSIVE RPow(_, _)
RPow(p, k) == IF k = 0 THEN One ELSE RMul(p, RPow(p, k - 1))

\* (rad^(1/deg))^3 = q, for rad, q >= 0
CubedEquals(v, q) ==
    IF v.deg = 3 THEN REq(v.rad, q)
    ELSE REq(RPow(v.rad, 3), RPow(q, v.deg))

\* rad^(1/deg) is in [0,1] exactly when rad is
RootInUnit(v) == InUnit(v.rad)

Components == {args.functional, args.structural, args.compositional}
SmallestComponent == CHOOSE x \in Components : \A y \in Components : RLe(x, y)
LargestComponent == CHOOSE x \in Components : \A y \in Components : RLe(y, x)
\* the middle one is what is left of the sum without the two extremes
MiddleComponent ==
    RSub(RSub(RAdd(RAdd(args.functional, args.structural), args.compositional),
              SmallestComponent), LargestComponent)
ComponentProduct ==
    RMul(args.functional, RMul(args.structural, args.compositional))

CombineCalled == op.name = "combine_components"

\* C1: for each of the four aggregation methods and every component triple
\* in [0,1]^3, combine_components returns a value in [0,1].
C1_CombineInUnitRange ==
    (CombineCalled /\ args.method \in AggregationMethods)
        => (ret.ok /\ RootInUnit(ret.value))

\* the fuzzy method, on a triple where the compensation term is below 1
C1_Witness ==
    /\ CombineCalled
    /\ args.method = "min_fuzzy_logic"
    /\ args.functional = <<4, 5>>
    /\ args.structural = <<3, 10>>
    /\ args.compositional = <<3, 5>>
    /\ ret.ok
    /\ RootInUnit(ret.value)

\* C2: with min_fuzzy_logic, also the method of a call that names none,
\* combine_components returns M * (Med + Max - Med*Max) for the minimum,
\* median and maximum of the triple, ties included.
C2_FuzzyLogicFormula ==
    (CombineCalled /\ args.method \in {"min_fuzzy_logic", Omitted})
        => /\ ret.ok
           /\ ret.value.deg = 1
           /\ REq(ret.value.rad,
                  RMul(SmallestComponent,
                       RSub(RAdd(MiddleComponent, LargestComponent),
                            RMul(MiddleComponent, LargestComponent))))

\* the default method on a triple with a tie: (0.3, 0.3, 0.8) gives
\* 0.3 * (0.3 + 0.8 - 0.24) = 0.258
C2_Witness ==
    /\ CombineCalled
    /\ args.method = Omitted
    /\ args.functional = <<3, 10>>
    /\ args.structural = <<3, 10>>
    /\ args.compositional = <<4, 5>>
    /\ ret = Ok(Root(<<129, 500>>, 1))

\* C3: combine_components returns min(f,s,c) under minimum, f*s*c under
\* product, and under geometric_mean the value g with g^3 = f*s*c.
C3_MinProductGeometric ==
    CombineCalled =>
        /\ args.method = "minimum"
              => (ret.ok /\ ret.value = Root(SmallestComponent, 1))
        /\ args.method = "product"
              => (ret.ok /\ ret.value.deg = 1
                         /\ REq(ret.value.rad, ComponentProduct))
        /\ args.method = "geometric_mean"
              => (ret.ok /\ CubedEquals(ret.value, ComponentProduct))

\* the documented example: the geometric mean of (0.8, 0.3, 0.6) is the
\* cube root of 0.144
C3_Witness ==
    /\ CombineCalled
    /\ args.method = "geometric_mean"
    /\ args.functional = <<4, 5>>
    /\ args.structural = <<3, 10>>
    /\ args.compositional = <<3, 5>>
    /\ ret = Ok(Root(<<18, 125>>, 3))

\* C4: a method outside the four names makes combine_components fail with
\* an 'Unknown method' error, and get_layers asked for the EII layer fails
\* too; no result is computed with a substituted method.
C4_UnknownMethodFails ==
    (args.method \notin AggregationMethods \cup {Omitted}) =>
        /\ CombineCalled => ret = Raise("ValueError: Unknown method")
        /\ (op.name = "get_layers" /\ op.layers \in {"eii", "all"})
              => ~ret.ok

\* get_layers computing the EII on the fly reaches combine_components and
\* fails there
C4_Witness ==
    /\ op.name = "get_layers"
    /\ op.layers = "eii"
    /\ op.compute_mode = "on_the_fly"
    /\ args.method = "mean"
    /\ ret = Raise("ValueError: Unknown method")

\* C19: when one of the three components is 0 and the others are in [0,1],
\* combine_components returns 0 under minimum, product and min_fuzzy_logic.
C19_ZeroAbsorbs ==
    (/\ CombineCalled
     /\ args.method \in {"minimum", "product", "min_fuzzy_logic"}
     /\ Zero \in Components)
        => ret = Ok(Root(Zero, 1))

\* the fuzzy method on (1, 1, 0): M = 0, Med = 1, Max = 1
C19_Witness ==
    /\ CombineCalled
    /\ args.method = "min_fuzzy_logic"
    /\ args.functional = One
    /\ args.structural = One
    /\ args.compositional = Zero
    /\ ret = Ok(Root(Zero, 1))

ComponentKeys == {"functional", "structural", "compositional"}
LayerKeys(layers) ==
    IF layers = "all" THEN ComponentKeys \cup {"eii"}
    ELSE IF layers = "eii" THEN {"eii"} ELSE ComponentKeys

RootLe(v, w) == RLe(RPow(v.rad, w.deg), RPow(w.rad, v.deg))

\* what combine_components gives the triple of args under a method
Combined(method) ==
    combine_components(args.functional, args.structural, args.compositional,
                       method).value

MODULATION_RANGE == <<1, 10>>

KpiNames == <<"biodiversity", "soil", "water">>

\* default weights that are not equal
UnequalKpiWeights ==
    [k \in {"biodiversity", "soil", "water"} |->
        IF k = "biodiversity" THEN <<1, 2>> ELSE <<1, 4>>]
DEFAULT_KPI_WEIGHTS ==
    [k \in {"biodiversity", "soil", "water"} |-> <<1, 3>>]

\* abs(weight_sum - 1.0) > 0.001
WEIGHT_SUM_TOLERANCE == <<1, 1000>>
\* a tolerance ten times too wide
WeightSumRejectedWide(weight_sum) ==
    RLt(<<1, 100>>, RAbs(RSub(weight_sum, One)))
WeightSumRejected(weight_sum) ==
    RLt(WEIGHT_SUM_TOLERANCE, RAbs(RSub(weight_sum, One)))

\* weights.get(k, 0)
WeightGet(weights, k) == IF k \in DOMAIN weights THEN weights[k] ELSE Zero

\* sum(...) over the three KPI names, in the order of the kpis dict
RECURSIVE SumOver(_, _)
SumOver(term, i) ==
    IF i = 0 THEN Zero ELSE RAdd(SumOver(term, i - 1), term[KpiNames[i]])

\* sum(weights.values())
RECURSIVE SumValues(_)
SumValues(weights) ==
    IF DOMAIN weights = {} THEN Zero
    ELSE LET k == CHOOSE x \in DOMAIN weights : TRUE
         IN  RAdd(weights[k],
                  SumValues([x \in (DOMAIN weights) \ {k} |-> weights[x]]))

calculate_nc_score(biodiversity_kpi, soil_kpi, water_kpi, weightsArg) ==
    LET kpis == [biodiversity |-> biodiversity_kpi, soil |-> soil_kpi,
                 water |-> water_kpi]
        weights == IF ~weightsArg.given THEN DEFAULT_KPI_WEIGHTS
                   ELSE weightsArg.val
        W == [k \in DOMAIN kpis |-> WeightGet(weights, k)]
        weight_sum == SumOver(W, 3)
        T == [k \in DOMAIN kpis |-> RMul(kpis[k], WeightGet(weights, k))]
    IN  IF WeightSumRejected(weight_sum)
        THEN Raise("ValueError: Weights must sum to 1.0")
        ELSE Ok(SumOver(T, 3))

calculate_nc_score_image(biodiversity_kpi, soil_kpi, water_kpi, weightsArg) ==
    LET weights == IF ~weightsArg.given THEN DEFAULT_KPI_WEIGHTS
                   ELSE weightsArg.val
        weight_sum == SumValues(weights)
    IN  IF WeightSumRejected(weight_sum)
        THEN Raise("ValueError: Weights must sum to 1.0")
        ELSE IF \E i \in 1..3 : KpiNames[i] \notin DOMAIN weights
        THEN Raise("KeyError")
        ELSE Ok(RAdd(RAdd(RMul(biodiversity_kpi, weights["biodiversity"]),
                          RMul(soil_kpi, weights["soil"])),
                     RMul(water_kpi, weights["water"])))

\* a modulation that is not centred on NC = 0.5
ModulationUncentred(nc_score, modulation_range) ==
    RMul(nc_score, modulation_range)
\* modulation = (nc_score - 0.5) * modulation_range
Modulation(nc_score, modulation_range) ==
    RMul(RSub(nc_score, Half), modulation_range)

\* a clamp that forgets the upper bound
ClampLowerOnly(x) == RMax(Zero, x)
\* max(0.0, min(1.0, x))
Clamp01(x) == RMax(Zero, RMin(One, x))
\* ee.Image.clamp(0, 1)
ImageClamp01(x) == RMin(RMax(x, Zero), One)

apply_modulation(eii, nc_score, rangeArg) ==
    LET modulation_range == IF rangeArg.given THEN rangeArg.val
                            ELSE MODULATION_RANGE
        modulation == Modulation(nc_score, modulation_range)
        eii_final == RAdd(eii, modulation)
    IN  Ok(Clamp01(eii_final))

apply_modulation_image(eii, nc_score, rangeArg) ==
    LET modulation_range == IF rangeArg.given THEN rangeArg.val
                            ELSE MODULATION_RANGE
        modulation == RMul(RSub(nc_score, Half), modulation_range)
        eii_final == ImageClamp01(RAdd(eii, modulation))
    IN  Ok(eii_final)

(***************************************************************************)
(* Specification of the NC modulator.  A behaviour starts either with the  *)
(* inputs of the NC score (KPIs and weights) or with the inputs of the     *)
(* modulation (base EII, NC score, range) drawn freely; the other inputs   *)
(* then have their neutral values.                                         *)
(***************************************************************************)
WeightValues ==
    {Zero, <<1, 3>>, <<417, 1250>>, <<3337, 10000>>, <<1, 2>>, One}
WeightKeys == {"biodiversity", "soil", "water", "extra"}
WeightMaps ==
    {m \in UNION {[S -> WeightValues] : S \in SUBSET WeightKeys} :
        "extra" \in DOMAIN m => m["extra"] = <<1, 2>>}
WeightArgs == {None} \cup {Some(m) : m \in WeightMaps}
RangeArgs == {None, Some(Zero), Some(<<1, 10>>), Some(<<1, 2>>), Some(<<2, 1>>)}

NcScoreInputs ==
    [biodiversity : Grid(KpiDen), soil : Grid(KpiDen), water : Grid(KpiDen),
     weights : WeightArgs,
     eii : {Half}, nc_score : {Half}, modulation_range : {None}]

ModulationInputs ==
    [biodiversity : {Half}, soil : {Half}, water : {Half}, weights : {None},
     eii : Grid(EiiDen), nc_score : Grid(NcDen), modulation_range : RangeArgs]

InitModulation ==
    /\ args \in NcScoreInputs \cup ModulationInputs
    /\ op = [name |-> "init"]
    /\ ret = NoResult
    /\ _NPP_DIFF_PERCENTILES_CACHE = None
    /\ ee_calls = <<>>
    /\ AssetsAtImport
    /\ tasks = <<>>

CalculateNcScore ==
    /\ op' = [name |-> "calculate_nc_score"]
    /\ ret' = calculate_nc_score(args.biodiversity, args.soil, args.water,
                                 args.weights)
    /\ UNCHANGED <<args, _NPP_DIFF_PERCENTILES_CACHE, ee_calls, client_assets, tasks>>

CalculateNcScoreImage ==
    /\ op' = [name |-> "calculate_nc_score_image"]
    /\ ret' = calculate_nc_score_image(args.biodiversity, args.soil,
                                       args.water, args.weights)
    /\ UNCHANGED <<args, _NPP_DIFF_PERCENTILES_CACHE, ee_calls, client_assets, tasks>>

ApplyModulation ==
    /\ op' = [name |-> "apply_modulation"]
    /\ ret' = apply_modulation(args.eii, args.nc_score, args.modulation_range)
    /\ UNCHANGED <<args, _NPP_DIFF_PERCENTILES_CACHE, ee_calls, client_assets, tasks>>

ApplyModulationImage ==
    /\ op' = [name |-> "apply_modulation_image"]
    /\ ret' = apply_modulation_image(args.eii, args.nc_score,
                                     args.modulation_range)
    /\ UNCHANGED <<args, _NPP_DIFF_PERCENTILES_CACHE, ee_calls, client_assets, tasks>>

NextModulation ==
    \/ CalculateNcScore
    \/ CalculateNcScoreImage
    \/ ApplyModulation
    \/ ApplyModulationImage

SpecModulation == InitModulation /\ [][NextModulation]_vars

(***************************************************************************)
(* Properties of the NC modulator.                                         *)
(***************************************************************************)
GivenRange ==
    IF args.modulation_range.given THEN args.modulation_range.val
    ELSE <<1, 10>>

\* eii + (nc_score - 0.5) * modulation_range
Unclamped == RAdd(args.eii, RMul(RSub(args.nc_score, Half), GivenRange))

ClampedToUnit(x) ==
    IF RLt(x, Zero) THEN Zero ELSE IF RLt(One, x) THEN One ELSE x

ApplyCalled == op.name = "apply_modulation"
DefaultRange == args.modulation_range \in {None, Some(<<1, 10>>)}

\* C5: apply_modulation returns clamp(eii + (nc_score - 0.5) * range, 0, 1),
\* a value in [0,1]; (0.5, 0, 0.1) gives 0.45, (0.5, 1, 0.1) gives 0.55 and
\* (0.98, 1, 0.1) gives 1.0.
C5_ApplyModulationClamped ==
    ApplyCalled =>
        /\ ret.ok
        /\ REq(ret.value, ClampedToUnit(Unclamped))
        /\ InUnit(ret.value)
        /\ (args.eii = Half /\ args.nc_score = Zero /\ DefaultRange)
              => ret.value = <<9, 20>>
        /\ (args.eii = Half /\ args.nc_score = One /\ DefaultRange)
              => ret.value = <<11, 20>>
        /\ (args.eii = <<49, 50>> /\ args.nc_score = One /\ DefaultRange)
              => ret.value = One

\* 0.98 + 0.05 = 1.03 is clamped to 1.0
C5_Witness ==
    /\ ApplyCalled
    /\ args.eii = <<49, 50>>
    /\ args.nc_score = One
    /\ args.modulation_range = None
    /\ RLt(One, Unclamped)
    /\ ret = Ok(One)

\* C6: at NC = 0.5 apply_modulation returns the base EII unchanged, for
\* every base EII in [0,1] and every modulation range.
C6_NoOpAtHalf ==
    (ApplyCalled /\ args.nc_score = Half) => ret = Ok(args.eii)

C6_Witness ==
    /\ ApplyCalled
    /\ args.nc_score = Half
    /\ args.eii = <<49, 50>>
    /\ args.modulation_range = Some(<<2, 1>>)
    /\ ret = Ok(<<49, 50>>)

NcScoreCalled == op.name = "calculate_nc_score"
ProvidedWeights == args.weights.val
\* the mapping gives weights to KPI names only
KpiWeightsOnly ==
    /\ args.weights.given
    /\ DOMAIN ProvidedWeights \subseteq {"biodiversity", "soil", "water"}
ProvidedSumOff ==
    RLt(<<1, 1000>>, RAbs(RSub(SumValues(ProvidedWeights), One)))
\* b * w_biodiversity + s * w_soil + w * w_water, a missing weight being 0
WeightedAsGiven ==
    LET wt(k) == IF k \in DOMAIN ProvidedWeights THEN ProvidedWeights[k]
                 ELSE Zero
    IN  RAdd(RAdd(RMul(args.biodiversity, wt("biodiversity")),
                  RMul(args.soil, wt("soil"))),
             RMul(args.water, wt("water")))

C8_NcScoreInUnit ==
    (NcScoreCalled /\ ret.ok) => InUnit(ret.value)

\* C9: without weights calculate_nc_score(b, s, w) is (b + s + w)/3; with
\* accepted weights it is b*w_biodiversity + s*w_soil + w*w_water.
C9_NcScoreFormula ==
    NcScoreCalled =>
        /\ ~args.weights.given
              => /\ ret.ok
                 /\ REq(RMul(<<3, 1>>, ret.value),
                        RAdd(RAdd(args.biodiversity, args.soil), args.water))
        /\ (args.weights.given /\ ret.ok
              /\ {"biodiversity", "soil", "water"} \subseteq DOMAIN ProvidedWeights)
              => REq(ret.value,
                     RAdd(RAdd(RMul(args.biodiversity,
                                    ProvidedWeights["biodiversity"]),
                               RMul(args.soil, ProvidedWeights["soil"])),
                          RMul(args.water, ProvidedWeights["water"])))

\* equal default weights: (1 + 1/2 + 0)/3 = 1/2
C9_Witness ==
    /\ NcScoreCalled
    /\ args.weights = None
    /\ args.biodiversity = One
    /\ args.soil = Half
    /\ args.water = Zero
    /\ ret = Ok(Half)

\* C10: the raster variants behave like the scalar ones: for every weights
\* mapping, extra or missing keys included, calculate_nc_score_image accepts
\* it exactly when calculate_nc_score does and then gives the pixel the
\* scalar value; apply_modulation_image gives the value of apply_modulation.
C10_ImageMatchesScalar ==
    /\ op.name = "calculate_nc_score_image"
          => LET scalar == calculate_nc_score(args.biodiversity, args.soil,
                                              args.water, args.weights)
             IN  /\ ret.ok <=> scalar.ok
                 /\ ret.ok => REq(ret.value, scalar.value)
    /\ op.name = "apply_modulation_image"
          => ret = apply_modulation(args.eii, args.nc_score,
                                    args.modulation_range)

(***************************************************************************)
(* eii/compute/npp.py: the scores of functional integrity and the          *)
(* percentile table behind the absolute-difference score.                  *)
(***************************************************************************)
\* ee.Image.divide: the quotient, and 0 where the divisor is 0
EEDivide(a, b) ==
    LET g == GCD(a[2], b[2])
        n == a[1] * (b[2] \div g)
        d == b[1] * (a[2] \div g)
    IN  IF b[1] = 0 THEN Zero
        ELSE IF d > 0 THEN Norm(<<n, d>>)
        ELSE Norm(<<-n, -d>>)

\* ee.Image.clamp(low, high)
EEClamp(x, low, high) == RMin(RMax(x, low), high)

\* a deviation that keeps its sign
DeviationSigned(relative) == RSub(relative, One)
\* relative.subtract(1).abs()
Deviation(relative) == RAbs(RSub(relative, One))

\* ee.Image(1).divide(ee.Image(1).add(deviation))
_calculate_symmetric_deviation_score(relative_npp) ==
    EEDivide(One, RAdd(One, Deviation(relative_npp)))

NPP_DIFF_PERCENTILES_ASSET_PATH ==
    "projects/landler-open-data/assets/eii/intermediate/functional/npp_diff_decile_breaks"
MAGNITUDE_WEIGHT == <<2, 3>>
SEASONALITY_WEIGHT == <<1, 3>>

\* f"p{p}" for p in range(5, 100, 5), in that order
PercentileKeys ==
    <<"p5", "p10", "p15", "p20", "p25", "p30", "p35", "p40", "p45", "p50",
      "p55", "p60", "p65", "p70", "p75", "p80", "p85", "p90", "p95">>
PercentileKeySet == {PercentileKeys[i] : i \in DOMAIN PercentileKeys}

\* the outcome of a call that touches the module state: what it returns,
\* the cache it leaves and the requests it made
Outcome(r, cache, calls) == [ret |-> r, cache |-> cache, ee_calls |-> calls]

\* an error carrying the keys its message lists
RaiseWith(e, available) == [ok |-> FALSE, error |-> e, available |-> available]

\* ee.FeatureCollection(asset_path).first().getInfo()
FetchProperties(asset_path) == [call |-> "getInfo", target |-> asset_path]

\* a loader that fetches the table but never stores it in the module cache
load_npp_diff_percentiles_uncached(asset_path, cache, assets) ==
    IF cache.given
    THEN Outcome(Ok(cache.val), cache, <<>>)
    ELSE IF assets[asset_path].exists
              /\ PercentileKeySet \subseteq DOMAIN assets[asset_path].properties
    THEN LET props == assets[asset_path].properties
             percentiles == [k \in PercentileKeySet |-> props[k]]
         IN  Outcome(Ok(percentiles), cache,
                     <<FetchProperties(asset_path)>>)
    ELSE Outcome(Raise("RuntimeError: NPP diff percentiles asset not found"),
                 cache, <<FetchProperties(asset_path)>>)

\* assets maps an asset path to what Earth Engine holds there
load_npp_diff_percentiles(asset_path, cache, assets) ==
    IF cache.given
    THEN Outcome(Ok(cache.val), cache, <<>>)
    ELSE IF assets[asset_path].exists
              /\ PercentileKeySet \subseteq DOMAIN assets[asset_path].properties
    THEN LET props == assets[asset_path].properties
             percentiles == [k \in PercentileKeySet |-> props[k]]
         IN  Outcome(Ok(percentiles), Some(percentiles),
                     <<FetchProperties(asset_path)>>)
    ELSE Outcome(Raise("RuntimeError: NPP diff percentiles asset not found"),
                 cache, <<FetchProperties(asset_path)>>)

\* a lookup that falls back to the first threshold of the table
_apply_npp_absolute_diff_scaling_lenient(npp_difference, percentilesArg, percentile_key, cache, assets) ==
    LET loaded == IF percentilesArg.given
                  THEN Outcome(Ok(percentilesArg.val), cache, <<>>)
                  ELSE load_npp_diff_percentiles(NPP_DIFF_PERCENTILES_ASSET_PATH,
                                                 cache, assets)
    IN  IF ~loaded.ret.ok THEN loaded
        ELSE LET percentiles == loaded.ret.value
                 key == IF percentile_key \in DOMAIN percentiles
                        THEN percentile_key
                        ELSE CHOOSE k \in DOMAIN percentiles : TRUE
                 p95 == percentiles[key]
                 diff_clamped == EEClamp(npp_difference, Zero, p95)
                 score == RSub(One, EEDivide(diff_clamped, p95))
             IN  Outcome(Ok(score), loaded.cache, loaded.ee_calls)

_apply_npp_absolute_diff_scaling(npp_difference, percentilesArg, percentile_key, cache, assets) ==
    LET loaded == IF percentilesArg.given
                  THEN Outcome(Ok(percentilesArg.val), cache, <<>>)
                  ELSE load_npp_diff_percentiles(NPP_DIFF_PERCENTILES_ASSET_PATH,
                                                 cache, assets)
    IN  IF ~loaded.ret.ok THEN loaded
        ELSE LET percentiles == loaded.ret.value
             IN  IF percentile_key \notin DOMAIN percentiles
                 THEN Outcome(RaiseWith("ValueError: Percentile not found",
                                        DOMAIN percentiles),
                              loaded.cache, loaded.ee_calls)
                 ELSE LET p95 == percentiles[percentile_key]
                          diff_clamped == EEClamp(npp_difference, Zero, p95)
                          score == RSub(One, EEDivide(diff_clamped, p95))
                      IN  Outcome(Ok(score), loaded.cache, loaded.ee_calls)

\* px holds the pixel values of the NPP layers: observed mean and std,
\* natural (potential) mean and std.  The 3x3 focal mean is taken over a
\* neighbourhood of equal pixels, where it returns the pixel value.
calculate_functional_integrity(px, include_seasonality, use_precomputed, absolute_diff_percentile, cache, assets) ==
    IF ~use_precomputed /\ include_seasonality
    THEN Outcome(Raise("ValueError: include_seasonality=True requires use_precomputed=True"),
                 cache, <<>>)
    ELSE
    LET natural_npp_std == IF use_precomputed THEN Some(px.natural_npp_std)
                           ELSE None
        relative_npp == EEDivide(px.actual_npp, px.potential_npp)
        npp_difference == RAbs(RSub(px.actual_npp, px.potential_npp))
        proportional_score == _calculate_symmetric_deviation_score(relative_npp)
        absolute == _apply_npp_absolute_diff_scaling(
                        npp_difference, None, absolute_diff_percentile,
                        cache, assets)
    IN  IF ~absolute.ret.ok THEN absolute
        ELSE
        LET absolute_score == absolute.ret.value
            magnitude_integrity ==
                EEDivide(RAdd(proportional_score, absolute_score), <<2, 1>>)
            seasonal == include_seasonality /\ natural_npp_std.given
            std_ratio == EEDivide(px.observed_npp_std, px.natural_npp_std)
            std_deviation == RAbs(RSub(std_ratio, One))
            seasonality_integrity == EEDivide(One, RAdd(One, std_deviation))
            functional_integrity ==
                IF seasonal
                THEN RAdd(RMul(magnitude_integrity, MAGNITUDE_WEIGHT),
                          RMul(seasonality_integrity, SEASONALITY_WEIGHT))
                ELSE magnitude_integrity
        IN  Outcome(Ok([relative_npp |-> relative_npp,
                        npp_difference |-> npp_difference,
                        proportional_score |-> proportional_score,
                        absolute_score |-> absolute_score,
                        magnitude_integrity |-> magnitude_integrity,
                        seasonality_integrity |->
                            IF seasonal THEN Some(seasonality_integrity)
                            ELSE None,
                        functional_integrity |-> functional_integrity]),
                    absolute.cache, absolute.ee_calls)

(***************************************************************************)
(* Specification of the functional-integrity scores: Init draws the pixel  *)
(* values and the content of the percentile assets, the actions call the   *)
(* functions; the cache lives across the calls.                            *)
(***************************************************************************)
\* NPP pixel values are drawn from 0..MaxNpp
MaxNpp == 1
\* relative NPP values are drawn from {0, 1/RelDen, ..., 3}
RelDen == 4

NppValues == {<<k, 1>> : k \in 0..MaxNpp}
\* intra-annual standard deviations
StdValues == {Zero, One, <<2, 1>>}
Relatives == {Norm(<<k, RelDen>>) : k \in 0..(3 * RelDen)}

PercentileIndex(key) ==
    CHOOSE i \in DOMAIN PercentileKeys : PercentileKeys[i] = key
\* a table of non-decreasing thresholds: first, first + step, ...
LinearTable(first, step) ==
    [k \in PercentileKeySet |-> <<first + step * (PercentileIndex(k) - 1), 1>>]

OtherAssetPath == "users/someone/npp_diff_breaks"
AssetPaths == {NPP_DIFF_PERCENTILES_ASSET_PATH, OtherAssetPath}
AssetStates ==
    {[exists |-> FALSE, properties |-> <<>>],
     [exists |-> TRUE, properties |-> LinearTable(0, 1)],
     [exists |-> TRUE, properties |-> LinearTable(2, 2)]}
SuppliedPercentiles ==
    {None, Some(LinearTable(0, 1)),
     Some([k \in {"p05", "p50", "p95"} |->
              IF k = "p05" THEN One ELSE IF k = "p50" THEN <<2, 1>>
              ELSE <<3, 1>>])}
RequestedKeys == {"p95", "p10", "p5", "p05"}

InitNpp ==
    /\ args \in [actual_npp : NppValues, potential_npp : NppValues,
                 observed_npp_std : StdValues, natural_npp_std : StdValues,
                 assets : [AssetPaths -> AssetStates]]
    /\ op = [name |-> "init"]
    /\ ret = NoResult
    /\ _NPP_DIFF_PERCENTILES_CACHE = None
    /\ ee_calls = <<>>
    /\ AssetsAtImport
    /\ tasks = <<>>

\* the effect of a call on the module state
Effect(out) ==
    /\ ret' = out.ret
    /\ _NPP_DIFF_PERCENTILES_CACHE' = out.cache
    /\ ee_calls' = out.ee_calls
    /\ UNCHANGED <<client_assets, tasks>>

LoadNppDiffPercentiles ==
    \E asset_path \in AssetPaths :
        /\ op' = [name |-> "load_npp_diff_percentiles",
                  asset_path |-> asset_path]
        /\ Effect(load_npp_diff_percentiles(
                      asset_path, _NPP_DIFF_PERCENTILES_CACHE, args.assets))
        /\ UNCHANGED args

SymmetricDeviationScore ==
    \E relative_npp \in Relatives :
        /\ op' = [name |-> "_calculate_symmetric_deviation_score",
                  relative_npp |-> relative_npp]
        /\ ret' = Ok(_calculate_symmetric_deviation_score(relative_npp))
        /\ ee_calls' = <<>>
        /\ UNCHANGED <<args, _NPP_DIFF_PERCENTILES_CACHE, client_assets, tasks>>

ApplyNppAbsoluteDiffScaling ==
    \E percentiles \in SuppliedPercentiles, percentile_key \in RequestedKeys :
        LET npp_difference == RAbs(RSub(args.actual_npp, args.potential_npp))
        IN  /\ op' = [name |-> "_apply_npp_absolute_diff_scaling",
                      npp_difference |-> npp_difference,
                      percentiles |-> percentiles,
                      percentile_key |-> percentile_key]
            /\ Effect(_apply_npp_absolute_diff_scaling(
                          npp_difference, percentiles, percentile_key,
                          _NPP_DIFF_PERCENTILES_CACHE, args.assets))
            /\ UNCHANGED args

CalculateFunctionalIntegrity ==
    \E include_seasonality \in BOOLEAN, use_precomputed \in BOOLEAN,
       absolute_diff_percentile \in RequestedKeys :
        /\ op' = [name |-> "calculate_functional_integrity",
                  include_seasonality |-> include_seasonality,
                  use_precomputed |-> use_precomputed,
                  absolute_diff_percentile |-> absolute_diff_percentile]
        /\ Effect(calculate_functional_integrity(
                      args, include_seasonality, use_precomputed,
                      absolute_diff_percentile,
                      _NPP_DIFF_PERCENTILES_CACHE, args.assets))
        /\ UNCHANGED args

NextNpp ==
    \/ LoadNppDiffPercentiles
    \/ SymmetricDeviationScore
    \/ ApplyNppAbsoluteDiffScaling
    \/ CalculateFunctionalIntegrity

SpecNpp == InitNpp /\ [][NextNpp]_vars

(***************************************************************************)
(* Properties of the functional-integrity scores.                          *)
(***************************************************************************)
Two == <<2, 1>>
SymmetricScoreCalled == op.name = "_calculate_symmetric_deviation_score"
AbsoluteScoreCalled == op.name = "_apply_npp_absolute_diff_scaling"
FunctionalCalled == op.name = "calculate_functional_integrity"
LoadCalled == op.name = "load_npp_diff_percentiles"

\* C15: the symmetric deviation score 1/(1 + |relative - 1|) is in (0,1]
\* for every relative >= 0, is 1 only at relative = 1, and is symmetric
\* around 1 (score(1 - d) = score(1 + d) for d in [0,1], so score(0) =
\* score(2) = 1/2); the seasonality score is the same law applied to the
\* ratio of observed to reference standard deviation.
C15_SymmetricDeviationScore ==
    /\ SymmetricScoreCalled =>
          LET relative == op.relative_npp
          IN  /\ ret.ok
              /\ REq(RMul(ret.value, RAdd(One, RAbs(RSub(relative, One)))), One)
              /\ RLt(Zero, ret.value) /\ RLe(ret.value, One)
              /\ REq(ret.value, One) <=> REq(relative, One)
              /\ RLe(relative, Two)
                    => REq(ret.value,
                           _calculate_symmetric_deviation_score(
                               RSub(Two, relative)))
              /\ (REq(relative, Zero) \/ REq(relative, Two))
                    => REq(ret.value, Half)
    /\ (FunctionalCalled /\ ret.ok /\ op.include_seasonality
           /\ ~REq(args.natural_npp_std, Zero))
          => /\ ret.value.seasonality_integrity.given
             \* score * (1 + |observed/reference - 1|) = 1, times reference
             /\ REq(RMul(ret.value.seasonality_integrity.val,
                         RAdd(args.natural_npp_std,
                              RAbs(RSub(args.observed_npp_std,
                                        args.natural_npp_std)))),
                    args.natural_npp_std)

\* half the potential scores 1 / (1 + 1/2) = 2/3, as one and a half does
C15_Witness ==
    /\ SymmetricScoreCalled
    /\ op.relative_npp = Half
    /\ ret = Ok(<<2, 3>>)
    /\ _calculate_symmetric_deviation_score(<<3, 2>>) = <<2, 3>>

\* the table the absolute-difference score was computed from
TableUsed ==
    IF op.percentiles.given THEN op.percentiles.val
    ELSE _NPP_DIFF_PERCENTILES_CACHE.val
ThresholdUsed == TableUsed[op.percentile_key]

\* C16: for every difference >= 0 and every threshold p >= 0 of a
\* percentile table, the absolute-difference score is 1 - min(difference,
\* p)/p, lies in [0,1], is 1 at difference 0 and 0 for every difference >= p.
C16_AbsoluteDiffScore ==
    (AbsoluteScoreCalled /\ ret.ok) =>
        /\ InUnit(ret.value)
        /\ REq(RMul(RSub(One, ret.value), ThresholdUsed),
               RMin(op.npp_difference, ThresholdUsed))
        /\ REq(op.npp_difference, Zero) => REq(ret.value, One)
        /\ RLe(ThresholdUsed, op.npp_difference) => REq(ret.value, Zero)

\* the table a call looked its key up in, when it got that far
TableLookedUp ==
    IF AbsoluteScoreCalled /\ op.percentiles.given
    THEN Some(op.percentiles.val)
    ELSE _NPP_DIFF_PERCENTILES_CACHE
RequestedKey ==
    IF AbsoluteScoreCalled THEN op.percentile_key
    ELSE op.absolute_diff_percentile
ReachedLookup ==
    \/ AbsoluteScoreCalled
    \/ FunctionalCalled /\ (op.use_precomputed \/ ~op.include_seasonality)

\* C17: when the requested percentile key is not in the supplied or loaded
\* table, absolute-difference scoring fails with an error listing the
\* available keys; no score and no functional integrity result is produced.
C17_MissingPercentileKey ==
    (/\ ReachedLookup
     /\ TableLookedUp.given
     /\ RequestedKey \notin DOMAIN TableLookedUp.val)
        => ret = RaiseWith("ValueError: Percentile not found",
                           DOMAIN TableLookedUp.val)

\* functional integrity asked for 'p05' against the loaded table
C17_Witness ==
    /\ FunctionalCalled
    /\ op.absolute_diff_percentile = "p05"
    /\ _NPP_DIFF_PERCENTILES_CACHE.given
    /\ ret = RaiseWith("ValueError: Percentile not found", PercentileKeySet)

\* C18: operations do not depend on the calls made before them: a call
\* returns what the same call returns in a fresh process; in particular
\* load_npp_diff_percentiles(asset_path) returns the percentile values of
\* the asset at asset_path, and default absolute-difference scoring uses
\* the table of the default asset.
C18_IndependentOfHistory ==
    /\ LoadCalled =>
          /\ ret = load_npp_diff_percentiles(op.asset_path, None,
                                             args.assets).ret
          /\ ret.ok => \A k \in PercentileKeySet :
                          ret.value[k] = args.assets[op.asset_path].properties[k]
    /\ AbsoluteScoreCalled =>
          ret = _apply_npp_absolute_diff_scaling(
                    op.npp_difference, op.percentiles, op.percentile_key,
                    None, args.assets).ret
    /\ FunctionalCalled =>
          ret = calculate_functional_integrity(
                    args, op.include_seasonality, op.use_precomputed,
                    op.absolute_diff_percentile, None, args.assets).ret
    /\ SymmetricScoreCalled =>
          ret = Ok(_calculate_symmetric_deviation_score(op.relative_npp))

\* a step that calls load_npp_diff_percentiles
LoadStep == op'.name = "load_npp_diff_percentiles"

\* C24: the percentile table is loaded once per process.  Once the cache
\* holds a table no step changes it, and a call of
\* load_npp_diff_percentiles returns that table without any request to
\* Earth Engine.  A call made while the cache is empty fetches the asset:
\* when the fetch succeeds the returned table is the one left in the cache,
\* when it fails the call raises RuntimeError and leaves the cache empty,
\* so that the next call fetches again.
C24_LoadedOncePerProcess ==
    [][/\ _NPP_DIFF_PERCENTILES_CACHE.given =>
             /\ _NPP_DIFF_PERCENTILES_CACHE' = _NPP_DIFF_PERCENTILES_CACHE
             /\ LoadStep =>
                   /\ ret' = Ok(_NPP_DIFF_PERCENTILES_CACHE.val)
                   /\ ee_calls' = <<>>
       /\ (~_NPP_DIFF_PERCENTILES_CACHE.given /\ LoadStep) =>
             /\ ee_calls' = <<FetchProperties(op'.asset_path)>>
             /\ ret'.ok => _NPP_DIFF_PERCENTILES_CACHE' = Some(ret'.value)
             /\ ~ret'.ok =>
                   /\ ret' = Raise("RuntimeError: NPP diff percentiles asset not found")
                   /\ _NPP_DIFF_PERCENTILES_CACHE' = None]_vars

\* a call answered from the cache, and no request was made
C24_Witness ==
    /\ LoadCalled
    /\ ret.ok
    /\ ee_calls = <<>>
    /\ _NPP_DIFF_PERCENTILES_CACHE = Some(ret.value)

\* the keys the documentation of load_npp_diff_percentiles gives the table
DocumentedPercentileKeys ==
    {"p05", "p10", "p15", "p20", "p25", "p30", "p35", "p40", "p45", "p50",
     "p55", "p60", "p65", "p70", "p75", "p80", "p85", "p90", "p95"}

\* C25: the table returned by load_npp_diff_percentiles has the keys p05,
\* p10, ..., p95, and a functional-integrity computation that asks for one
\* of these keys with the table loaded never fails on a missing key.
C25_DocumentedKeysUsable ==
    /\ (LoadCalled /\ ret.ok) => DOMAIN ret.value = DocumentedPercentileKeys
    /\ (/\ FunctionalCalled
        /\ op.absolute_diff_percentile \in DocumentedPercentileKeys
        /\ _NPP_DIFF_PERCENTILES_CACHE.given) =>
          (~ret.ok => ret.error # "ValueError: Percentile not found")

(***************************************************************************)
(* eii/client/retrieve.py: zonal statistics.  The region is one pixel of   *)
(* value v: its mean, median, min, max and every percentile are v and its  *)
(* standard deviation is 0.  A Python dict is a function from its keys;    *)
(* dict.get gives an optional value.                                       *)
(***************************************************************************)
VALID_STATS == {"mean", "median", "min", "max", "std"}

SeqSet(s) == {s[i] : i \in DOMAIN s}
\* d.get(k)
Get(d, k) == IF k \in DOMAIN d THEN Some(d[k]) ELSE None
\* the truth value of an optional list: None and [] are false
Truthy(listArg) == listArg.given /\ Len(listArg.val) > 0
\* d.update(e)
Update(d, e) ==
    [k \in (DOMAIN d) \cup (DOMAIN e) |-> IF k \in DOMAIN e THEN e[k] ELSE d[k]]

\* the calls that reach Earth Engine or build its geometry objects
NormalizeInput == [call |-> "normalize_client_input", target |-> "geometry"]
GetInfo(target) == [call |-> "getInfo", target |-> target]
\* what a client call returns and the calls it made, in order
Done(r, calls) == [ret |-> r, calls |-> calls]

_validate_stats_params(statsArg, percentilesArg) ==
    LET stats == IF ~statsArg.given THEN <<"mean">> ELSE statsArg.val
    IN  IF \E i \in DOMAIN stats : stats[i] \notin VALID_STATS
        THEN Raise("ValueError: Invalid stats")
        ELSE IF Truthy(percentilesArg)
                  /\ \E i \in DOMAIN percentilesArg.val :
                        percentilesArg.val[i] \notin 0..100
        THEN Raise("ValueError: Percentiles must be integers between 0 and 100")
        ELSE Ok(stats)

\* the order in which _build_reducer appends the reducers
ReducerOrder == <<"mean", "median", "min", "max", "std">>
\* stat_mapping: the output name of the reducer of a statistic
StatSuffix(stat) == IF stat = "std" THEN "stdDev" ELSE stat
PercentileLabel(p) == "p" \o ToString(p)

\* a reducer is the sequence of its output names; reducers counts the
\* reducers combined into it
_build_reducer(stats, percentilesArg) ==
    LET stats_set == SeqSet(stats)
        Requested(stat) == stat \in stats_set
        basic == SelectSeq(ReducerOrder, Requested)
        percentile == IF Truthy(percentilesArg)
                      THEN [i \in DOMAIN percentilesArg.val |->
                               PercentileLabel(percentilesArg.val[i])]
                      ELSE <<>>
        reducers == Len(basic) + (IF Truthy(percentilesArg) THEN 1 ELSE 0)
    IN  IF reducers = 0
        THEN Raise("ValueError: No statistics selected")
        ELSE Ok([outputs |-> [i \in DOMAIN basic |-> StatSuffix(basic[i])]
                                \o percentile,
                 reducers |-> reducers])

\* ee.Reducer.first()
FirstReducer == [outputs |-> <<"first">>, reducers |-> 1]

\* image.reduceRegion(reducer, geometry).getInfo() on the one-pixel region:
\* a reducer with one output is keyed by the band name, any other by
\* <band>_<output>
ReduceRegion(image, reducer) ==
    LET outputs == reducer.outputs
        Value(output) == IF output = "stdDev" THEN Zero ELSE image.px
        Key(i) == image.band \o "_" \o outputs[i]
    IN  IF Len(outputs) = 1
        THEN [k \in {image.band} |-> Value(outputs[1])]
        ELSE [k \in {Key(i) : i \in DOMAIN outputs} |->
                 Value(outputs[CHOOSE i \in DOMAIN outputs : Key(i) = k])]

\* for an area the formatted entry is a dict from statistic to optional
\* value; for a point it is the optional value itself
_format_stats(label, raw_stats, is_point, requested_stats, percentilesArg) ==
    IF is_point THEN [k \in {label} |-> Get(raw_stats, label)]
    ELSE
    LET single_reducer == Len(requested_stats) = 1 /\ ~Truthy(percentilesArg)
        stat_keys == SeqSet(requested_stats)
        percentile_keys ==
            IF Truthy(percentilesArg)
            THEN {PercentileLabel(percentilesArg.val[i]) :
                      i \in DOMAIN percentilesArg.val}
            ELSE {}
        result ==
            [k \in stat_keys \cup percentile_keys |->
                IF k \in percentile_keys
                THEN Get(raw_stats, label \o "_" \o k)
                ELSE IF single_reducer THEN Get(raw_stats, label)
                ELSE Get(raw_stats, label \o "_" \o StatSuffix(k))]
    IN  [k \in {label} |-> result]

\* an image on the one-pixel region: its band name and the pixel value
Image(band, px) == [band |-> band, px |-> px]

ComponentNames == <<"functional", "structural", "compositional">>
\* name if name.endswith("_integrity") else f"{name}_integrity"
ComponentLabel(name) == name \o "_integrity"

\* the loop over the component layers, from the i-th on
RECURSIVE ComponentStats(_, _, _, _, _, _)
ComponentStats(i, layers, is_point, reducer, stats, percentilesArg) ==
    IF i > Len(ComponentNames) THEN Done(<<>>, <<>>)
    ELSE LET label == ComponentLabel(ComponentNames[i])
             image == Image(label, layers[ComponentNames[i]].rad)
             comp_stats == ReduceRegion(image, reducer)
             entry == _format_stats(label, comp_stats, is_point, stats,
                                    percentilesArg)
             rest == ComponentStats(i + 1, layers, is_point, reducer, stats,
                                    percentilesArg)
         IN  Done(Update(entry, rest.ret), <<GetInfo(label)>> \o rest.calls)

\* px holds the pixel values behind the layers (see get_layers); the
\* aggregation methods used here give rational pixel values
get_stats(geometry_type, aggregation_method, include_components, statsArg, percentilesArg, compute_mode, px) ==
    LET validated == _validate_stats_params(statsArg, percentilesArg)
    IN  IF ~validated.ok THEN Done(validated, <<>>)
        ELSE
        LET stats == validated.value
            layers == get_layers(IF include_components THEN "all" ELSE "eii",
                                 aggregation_method, compute_mode, px)
        IN  IF ~layers.ok THEN Done(layers, <<NormalizeInput>>)
            ELSE
            LET is_point == geometry_type \in {"Point", "MultiPoint"}
                probes == <<NormalizeInput, GetInfo("is_point"),
                            GetInfo("geometry_type")>>
                reducer == IF is_point THEN Ok(FirstReducer)
                           ELSE _build_reducer(stats, percentilesArg)
            IN  IF ~reducer.ok THEN Done(reducer, probes)
                ELSE
                LET eii_image == Image("eii", layers.value["eii"].rad)
                    eii_stats == ReduceRegion(eii_image, reducer.value)
                    values == _format_stats("eii", eii_stats, is_point, stats,
                                            percentilesArg)
                    components ==
                        IF include_components
                        THEN ComponentStats(1, layers.value, is_point,
                                            reducer.value, stats, percentilesArg)
                        ELSE Done(<<>>, <<>>)
                IN  Done(Ok([geometry_type |-> geometry_type,
                             values |-> Update(values, components.ret)]),
                         probes \o <<GetInfo("eii")>> \o components.calls)

(***************************************************************************)
(* eii/client/modulation.py                                                *)
(***************************************************************************)
RequiredKpiKeys == {"biodiversity", "soil", "water"}

\* an error naming keys
RaiseNaming(e, named) == [ok |-> FALSE, error |-> e, named |-> named]

\* a value that is neither an int nor a float (a string, a list)
NonNumeric == <<0, 0>>
\* isinstance(value, int | float)
IsNumeric(value) == value[2] > 0

\* the first key, in the iteration order of the set required_keys, whose
\* value the loop rejects; 0 if there is none
RECURSIVE FirstRejected(_, _, _)
FirstRejected(kpis, key_order, i) ==
    IF i > Len(key_order) THEN 0
    ELSE LET value == kpis[key_order[i]]
         IN  IF ~IsNumeric(value) \/ ~InUnit(value) THEN i
             ELSE FirstRejected(kpis, key_order, i + 1)

\* validation that lets out-of-range numbers through
_validate_kpi_dict_unranged(kpis, key_order) ==
    LET missing == RequiredKpiKeys \ DOMAIN kpis
    IN  IF missing # {}
        THEN RaiseNaming("ValueError: Missing required KPI keys", missing)
        ELSE IF \E k \in RequiredKpiKeys : ~IsNumeric(kpis[k])
        THEN RaiseNaming("ValueError: KPI must be numeric",
                         {CHOOSE k \in RequiredKpiKeys : ~IsNumeric(kpis[k])})
        ELSE Ok([k \in RequiredKpiKeys |-> kpis[k]])

\* key_order is the order in which this process iterates required_keys
_validate_kpi_dict(kpis, key_order) ==
    LET missing == RequiredKpiKeys \ DOMAIN kpis
    IN  IF missing # {}
        THEN RaiseNaming("ValueError: Missing required KPI keys", missing)
        ELSE LET i == FirstRejected(kpis, key_order, 1)
             IN  IF i = 0 THEN Ok([k \in RequiredKpiKeys |-> kpis[k]])
                 ELSE IF ~IsNumeric(kpis[key_order[i]])
                 THEN RaiseNaming("ValueError: KPI must be numeric",
                                  {key_order[i]})
                 ELSE RaiseNaming("ValueError: KPI must be in [0, 1]",
                                  {key_order[i]})

_validate_kpi_layers(kpi_layers) ==
    LET missing == RequiredKpiKeys \ DOMAIN kpi_layers
    IN  IF missing # {}
        THEN RaiseNaming("ValueError: Missing required KPI layer keys", missing)
        ELSE Ok([k \in RequiredKpiKeys |-> kpi_layers[k]])

\* d.get(k) on a dict of optional values: None for a missing key and for a
\* key holding None
GetValue(d, k) == IF k \in DOMAIN d THEN d[k] ELSE None

_build_result_from_scalar_kpis(base_result, kpi_values, nc_score, eii_modulated, stats) ==
    IF "mean" \notin SeqSet(stats) /\ Len(stats) = 0
    THEN Raise("IndexError: list index out of range")
    ELSE
    LET stat_key == IF "mean" \in SeqSet(stats) THEN "mean" ELSE stats[1]
        Entry(value) == [k \in {stat_key} |-> Some(value)]
        added ==
            [label \in {"eii_modulated", "nc_score"}
                       \cup {name \o "_kpi" : name \in DOMAIN kpi_values} |->
                IF label = "eii_modulated" THEN Entry(eii_modulated)
                ELSE IF label = "nc_score" THEN Entry(nc_score)
                ELSE Entry(kpi_values[CHOOSE name \in DOMAIN kpi_values :
                                          name \o "_kpi" = label])]
    IN  Ok([geometry_type |-> base_result.geometry_type,
            values |-> Update(base_result.values, added)])

\* the branch of get_modulated_eii for scalar kpis, after get_stats
ScalarKpiBranch(base_result, kpis, key_order, kpi_weights, modulation_range, stats) ==
    LET validated == _validate_kpi_dict(kpis, key_order)
    IN  IF ~validated.ok THEN validated
        ELSE
        LET kpi_values == validated.value
            nc_score == calculate_nc_score(kpi_values["biodiversity"],
                                           kpi_values["soil"],
                                           kpi_values["water"], kpi_weights)
            is_point == base_result.geometry_type \in {"Point", "MultiPoint"}
        IN  IF ~nc_score.ok THEN nc_score
            ELSE IF is_point
            THEN Raise("AttributeError: object has no attribute 'get'")
            ELSE
            LET eii_stats == base_result.values["eii"]
                mean == GetValue(eii_stats, "mean")
                base_eii_mean == IF mean.given THEN mean
                                 ELSE GetValue(eii_stats, "value")
            IN  IF ~base_eii_mean.given
                THEN Raise("TypeError: unsupported operand type(s) for +")
                ELSE _build_result_from_scalar_kpis(
                         base_result, kpi_values, nc_score.value,
                         apply_modulation(base_eii_mean.val, nc_score.value,
                                          modulation_range).value,
                         stats)

\* the loop over the KPI images, from the i-th name of names on
RECURSIVE KpiStats(_, _, _, _, _, _)
KpiStats(i, names, kpi_images, reducer, stats, percentilesArg) ==
    IF i > Len(names) THEN Done(<<>>, <<>>)
    ELSE LET label == names[i] \o "_kpi"
             raw == ReduceRegion(kpi_images[names[i]], reducer)
             entry == _format_stats(label, raw, FALSE, stats, percentilesArg)
             rest == KpiStats(i + 1, names, kpi_images, reducer, stats,
                              percentilesArg)
         IN  Done(Update(entry, rest.ret), <<GetInfo(label)>> \o rest.calls)

\* names is the order of the keys of kpi_images
_compute_modulation_from_layers(base_result, kpi_images, names, kpi_weights, modulation_range, stats, percentilesArg, px) ==
    LET nc == calculate_nc_score_image(kpi_images["biodiversity"].px,
                                       kpi_images["soil"].px,
                                       kpi_images["water"].px, kpi_weights)
    IN  IF ~nc.ok THEN Done(nc, <<>>)
        ELSE
        LET nc_image == Image("nc_score", nc.value)
            layers == get_layers("eii", Omitted, "precomputed", px)
            eii_base == layers.value["eii"].rad
            eii_modulated ==
                Image("eii_modulated",
                      apply_modulation_image(eii_base, nc.value,
                                             modulation_range).value)
            reducer == _build_reducer(stats, percentilesArg)
        IN  IF ~reducer.ok THEN Done(reducer, <<>>)
            ELSE
            LET kpi_stats == KpiStats(1, names, kpi_images, reducer.value,
                                      stats, percentilesArg)
                nc_raw == ReduceRegion(nc_image, reducer.value)
                mod_raw == ReduceRegion(eii_modulated, reducer.value)
                added ==
                    Update(Update(_format_stats("eii_modulated", mod_raw, FALSE,
                                                stats, percentilesArg),
                                  _format_stats("nc_score", nc_raw, FALSE,
                                                stats, percentilesArg)),
                           kpi_stats.ret)
            IN  Done(Ok([geometry_type |-> base_result.geometry_type,
                         values |-> Update(base_result.values, added)]),
                     kpi_stats.calls
                         \o <<GetInfo("nc_score"), GetInfo("eii_modulated")>>)

\* default_kpis holds the pixel values of the three default KPI layers
get_kpi_layers(default_kpis) ==
    Done([name \in RequiredKpiKeys |->
             Image(name \o "_kpi", default_kpis[name])],
         <<NormalizeInput>>)

\* a count that forgets compute_default_kpis
KpiSourceCountWithoutDefault(a) ==
    (IF a.kpis.given THEN 1 ELSE 0) + (IF a.kpi_layers.given THEN 1 ELSE 0)
\* sum([kpis is not None, kpi_layers is not None, compute_default_kpis])
KpiSourceCount(a) ==
    (IF a.kpis.given THEN 1 ELSE 0)
        + (IF a.kpi_layers.given THEN 1 ELSE 0)
        + (IF a.compute_default_kpis THEN 1 ELSE 0)

\* a holds the arguments of the call and what Earth Engine delivers: the
\* pixel values px behind the EII layers, the pixel values default_kpis of
\* the default KPI layers, and key_order, the iteration order of the set
\* of required keys in this process
get_modulated_eii(a) ==
    LET stats == IF ~a.stats.given THEN <<"mean">> ELSE a.stats.val
        kpi_source_count == KpiSourceCount(a)
    IN  IF kpi_source_count = 0
        THEN Done(Raise("ValueError: Must provide one of"), <<>>)
        ELSE IF kpi_source_count > 1
        THEN Done(Raise("ValueError: Provide only one of"), <<>>)
        ELSE
        LET base == get_stats(a.geometry_type, a.aggregation_method,
                              a.include_components, Some(stats),
                              a.percentiles, a.compute_mode, a.px)
            calls == <<NormalizeInput>> \o base.calls
        IN  IF ~base.ret.ok THEN Done(base.ret, calls)
            ELSE IF a.kpis.given
            THEN Done(ScalarKpiBranch(base.ret.value, a.kpis.val, a.key_order,
                                      a.kpi_weights, a.modulation_range,
                                      stats),
                      calls)
            ELSE IF a.kpi_layers.given
            THEN LET kpi_images == _validate_kpi_layers(a.kpi_layers.val)
                 IN  IF ~kpi_images.ok THEN Done(kpi_images, calls)
                     ELSE LET result == _compute_modulation_from_layers(
                                            base.ret.value, kpi_images.value,
                                            a.key_order, a.kpi_weights,
                                            a.modulation_range, stats,
                                            a.percentiles, a.px)
                          IN  Done(result.ret, calls \o result.calls)
            ELSE LET kpi_images == get_kpi_layers(a.default_kpis)
                     result == _compute_modulation_from_layers(
                                   base.ret.value, kpi_images.ret, KpiNames,
                                   a.kpi_weights, a.modulation_range, stats,
                                   a.percentiles, a.px)
                 IN  Done(result.ret,
                          calls \o kpi_images.calls \o result.calls)

\* the keys a caller's kpi_layers dict may have, in insertion order
LayerKeyOrder == <<"biodiversity", "soil", "water", "extra">>

\* KPI values of which some are None
ScoreWithMissing(values, kpi_weights) ==
    IF \A name \in RequiredKpiKeys : values[name].given
    THEN calculate_nc_score(values["biodiversity"].val, values["soil"].val,
                            values["water"].val, kpi_weights)
    ELSE LET checked == calculate_nc_score(Zero, Zero, Zero, kpi_weights)
         IN  IF ~checked.ok THEN checked
             ELSE Raise("TypeError: unsupported operand type(s) for *")

get_default_kpis(default_kpis) ==
    LET kpi_images == get_kpi_layers(default_kpis)
        \* value.get(f"{name}_kpi") or value.get(name)
        kpi_values ==
            [name \in RequiredKpiKeys |->
                LET value == ReduceRegion(kpi_images.ret[name],
                                          [outputs |-> <<"mean">>,
                                           reducers |-> 1])
                    first == Get(value, name \o "_kpi")
                IN  IF first.given /\ first.val # Zero THEN first
                    ELSE Get(value, name)]
    IN  Done(kpi_values,
             <<NormalizeInput>> \o kpi_images.calls
                 \o [i \in 1..3 |-> GetInfo(KpiNames[i] \o "_kpi")])

get_nc_score(a) ==
    IF a.kpis.given
    THEN LET kpi_values == _validate_kpi_dict(a.kpis.val, a.key_order)
         IN  IF ~kpi_values.ok THEN Done(kpi_values, <<>>)
             ELSE Done(calculate_nc_score(kpi_values.value["biodiversity"],
                                          kpi_values.value["soil"],
                                          kpi_values.value["water"],
                                          a.kpi_weights),
                       <<>>)
    ELSE IF a.kpi_layers.given
    THEN LET kpi_layers == a.kpi_layers.val
             Present(name) == name \in DOMAIN kpi_layers
             names == SelectSeq(LayerKeyOrder, Present)
             calls == <<NormalizeInput>>
                          \o [i \in DOMAIN names |-> GetInfo(names[i])]
         IN  IF RequiredKpiKeys \subseteq DOMAIN kpi_layers
             THEN Done(calculate_nc_score(kpi_layers["biodiversity"].px,
                                          kpi_layers["soil"].px,
                                          kpi_layers["water"].px,
                                          a.kpi_weights),
                       calls)
             ELSE Done(Raise("KeyError"), calls)
    ELSE IF a.compute_default_kpis
    THEN LET kpi_values == get_default_kpis(a.default_kpis)
         IN  Done(ScoreWithMissing(kpi_values.ret, a.kpi_weights),
                  kpi_values.calls)
    ELSE Done(Raise("ValueError: Must provide one of"), <<>>)

(***************************************************************************)
(* Specification of the client: Init draws the arguments of a call and     *)
(* what Earth Engine delivers, the actions call the client functions.  A   *)
(* behaviour starts in one of three families of inputs: the KPI sources    *)
(* and weights, the scalar KPI dictionaries, or the statistics requested.  *)
(***************************************************************************)
ClientEiiValues == {Zero, <<1, 4>>, One}
ClientPx ==
    [functional : {<<4, 5>>}, structural : {<<3, 10>>},
     compositional : {<<3, 5>>}, eii_asset : ClientEiiValues]

KpiTriple(b, s, w) ==
    [k \in RequiredKpiKeys |->
        IF k = "biodiversity" THEN b ELSE IF k = "soil" THEN s ELSE w]
ValidKpiDicts == {KpiTriple(<<3, 5>>, <<2, 5>>, <<4, 5>>),
                  KpiTriple(Zero, Half, Zero)}
KpiInputValues == {Zero, Half, One, <<3, 2>>, <<-1, 2>>, NonNumeric}
KpiInputKeys == {"biodiversity", "soil", "water", "extra"}
KpiDicts ==
    {d \in UNION {[S -> KpiInputValues] : S \in SUBSET KpiInputKeys} :
        "extra" \in DOMAIN d => d["extra"] = Half}

KpiLayers(b, s, w) ==
    [k \in RequiredKpiKeys |-> Image(k \o "_kpi", KpiTriple(b, s, w)[k])]
WithoutWater(layers) == [k \in {"biodiversity", "soil"} |-> layers[k]]
KpiLayerDicts ==
    {KpiLayers(<<3, 5>>, <<2, 5>>, <<4, 5>>), KpiLayers(Half, Half, Half),
     WithoutWater(KpiLayers(Half, Half, Half))}
DefaultKpiValues == {KpiTriple(Half, Half, Half),
                     KpiTriple(<<3, 5>>, Zero, <<4, 5>>)}

ClientWeightArgs ==
    {None, Some(KpiTriple(Half, <<1, 4>>, <<1, 4>>)),
     Some(KpiTriple(Half, Half, Half)),
     Some([k \in {"biodiversity"} |-> One])}

KeyOrders ==
    {o \in [1..3 -> RequiredKpiKeys] : SeqSet(o) = RequiredKpiKeys}

StatsArgs ==
    {None, Some(<<>>), Some(<<"mean">>), Some(<<"median">>), Some(<<"std">>),
     Some(<<"min", "mean">>), Some(<<"median", "max">>),
     Some(<<"mean", "mean">>), Some(<<"average">>)}
PercentilesArgs == {None, Some(<<50>>), Some(<<10, 90>>), Some(<<101>>)}
ClientMethodArgs == {Omitted, "minimum", "mean"}

SourceInputs ==
    [geometry_type : {"Polygon", "Point"},
     kpis : {None} \cup {Some(d) : d \in ValidKpiDicts},
     kpi_layers : {None} \cup {Some(d) : d \in KpiLayerDicts},
     compute_default_kpis : BOOLEAN,
     kpi_weights : ClientWeightArgs,
     modulation_range : {None},
     aggregation_method : {Omitted},
     include_components : {TRUE},
     compute_mode : {"precomputed"},
     stats : {None},
     percentiles : {None},
     px : ClientPx,
     default_kpis : DefaultKpiValues,
     key_order : {KpiNames}]

KpiDictInputs ==
    [geometry_type : {"Polygon"},
     kpis : {Some(d) : d \in KpiDicts},
     kpi_layers : {None},
     compute_default_kpis : {FALSE},
     kpi_weights : {None, Some(KpiTriple(Half, <<1, 4>>, <<1, 4>>))},
     modulation_range : {None},
     aggregation_method : {Omitted},
     include_components : {FALSE},
     compute_mode : {"precomputed"},
     stats : {None},
     percentiles : {None},
     px : [functional : {<<4, 5>>}, structural : {<<3, 10>>},
           compositional : {<<3, 5>>}, eii_asset : {<<1, 4>>}],
     default_kpis : {KpiTriple(Half, Half, Half)},
     key_order : KeyOrders]

StatsInputs ==
    {a \in [geometry_type : {"Polygon", "Point"},
            kpis : {None, Some(KpiTriple(<<3, 5>>, <<2, 5>>, <<4, 5>>))},
            kpi_layers : {None, Some(KpiLayers(Half, Half, Half))},
            compute_default_kpis : BOOLEAN,
            kpi_weights : {None},
            modulation_range : {None, Some(Half)},
            aggregation_method : ClientMethodArgs,
            include_components : BOOLEAN,
            compute_mode : ComputeModes,
            stats : StatsArgs,
            percentiles : PercentilesArgs,
            px : ClientPx,
            default_kpis : {KpiTriple(Half, Half, Half)},
            key_order : {KpiNames}] :
        KpiSourceCount(a) = 1}

InitClient ==
    /\ args \in SourceInputs \cup KpiDictInputs \cup StatsInputs
    /\ op = [name |-> "init"]
    /\ ret = NoResult
    /\ _NPP_DIFF_PERCENTILES_CACHE = None
    /\ ee_calls = <<>>
    /\ AssetsAtImport
    /\ tasks = <<>>

\* the effect of a client call: the cache of eii.compute.npp is not touched
ClientEffect(out) ==
    /\ ret' = out.ret
    /\ ee_calls' = out.calls
    /\ UNCHANGED <<args, _NPP_DIFF_PERCENTILES_CACHE, client_assets, tasks>>

GetModulatedEii ==
    /\ op' = [name |-> "get_modulated_eii"]
    /\ ClientEffect(get_modulated_eii(args))

GetNcScore ==
    /\ op' = [name |-> "get_nc_score"]
    /\ ClientEffect(get_nc_score(args))

GetStats ==
    /\ op' = [name |-> "get_stats"]
    /\ ClientEffect(get_stats(args.geometry_type, args.aggregation_method,
                              args.include_components, args.stats,
                              args.percentiles, args.compute_mode, args.px))

ValidateKpiDict ==
    /\ args.kpis.given
    /\ op' = [name |-> "_validate_kpi_dict"]
    /\ ClientEffect(Done(_validate_kpi_dict(args.kpis.val, args.key_order),
                         <<>>))

NextClient == GetModulatedEii \/ GetNcScore \/ GetStats \/ ValidateKpiDict

SpecClient == InitClient /\ [][NextClient]_vars

(***************************************************************************)
(* Properties of the client.                                               *)
(***************************************************************************)
ModulatedCalled == op.name = "get_modulated_eii"
SourcesGiven ==
    Cardinality({src \in {"kpis", "kpi_layers", "compute_default_kpis"} :
                    \/ src = "kpis" /\ args.kpis.given
                    \/ src = "kpi_layers" /\ args.kpi_layers.given
                    \/ src = "compute_default_kpis" /\ args.compute_default_kpis})
WeightsViolateSumRule ==
    /\ args.kpi_weights.given
    /\ WeightSumRejected(SumValues(args.kpi_weights.val))
WeightSumFailure == Raise("ValueError: Weights must sum to 1.0")
\* no request was sent to Earth Engine
NothingRetrieved == \A i \in DOMAIN ee_calls : ee_calls[i].call # "getInfo"

\* C11: in get_modulated_eii, in each of the three KPI source modes, a
\* weight set violating the sum rule makes the call fail without a partial
\* result, and the weight-sum failure is raised before any base-EII
\* retrieval or region reduction has been performed.
C11_WeightFailureBeforeComputation ==
    (ModulatedCalled /\ SourcesGiven = 1 /\ WeightsViolateSumRule)
        => /\ ~ret.ok
           /\ ret = WeightSumFailure => NothingRetrieved

\* C12: get_modulated_eii given no KPI source fails with 'Must provide one
\* of', given two or more with 'Provide only one of', in both cases before
\* the geometry is normalized or any Earth Engine call is made.
C12_ExactlyOneKpiSource ==
    ModulatedCalled =>
        /\ SourcesGiven = 0
              => (ret = Raise("ValueError: Must provide one of")
                     /\ ee_calls = <<>>)
        /\ SourcesGiven > 1
              => (ret = Raise("ValueError: Provide only one of")
                     /\ ee_calls = <<>>)

\* kpi_layers together with compute_default_kpis=True
C12_Witness ==
    /\ ModulatedCalled
    /\ ~args.kpis.given
    /\ args.kpi_layers.given
    /\ args.compute_default_kpis
    /\ ret = Raise("ValueError: Provide only one of")
    /\ ee_calls = <<>>

MissingKpiKeys == RequiredKpiKeys \ DOMAIN args.kpis.val
NotNumericKeys ==
    {k \in RequiredKpiKeys \cap DOMAIN args.kpis.val :
        ~IsNumeric(args.kpis.val[k])}
OutOfRangeKeys ==
    {k \in RequiredKpiKeys \cap DOMAIN args.kpis.val :
        IsNumeric(args.kpis.val[k]) /\ ~InUnit(args.kpis.val[k])}
KpiDictAcceptable ==
    MissingKpiKeys = {} /\ NotNumericKeys = {} /\ OutOfRangeKeys = {}
\* the rejection of the dictionary, naming an offending key
KpiDictRejection(r) ==
    /\ ~r.ok
    /\ MissingKpiKeys # {}
          => r = RaiseNaming("ValueError: Missing required KPI keys",
                             MissingKpiKeys)
    /\ MissingKpiKeys = {}
          => \/ \E k \in NotNumericKeys :
                   r = RaiseNaming("ValueError: KPI must be numeric", {k})
             \/ \E k \in OutOfRangeKeys :
                   r = RaiseNaming("ValueError: KPI must be in [0, 1]", {k})

\* C13: a scalar KPI dictionary lacking one of biodiversity, soil, water, or
\* holding a non-numeric value or a value outside [0,1], is rejected with
\* an error naming the offending key; otherwise validation returns exactly
\* the three keys with their values unchanged, so get_nc_score with scalar
\* kpis only combines values in [0,1].
C13_KpiDictValidation ==
    /\ op.name = "_validate_kpi_dict" =>
          IF KpiDictAcceptable
          THEN ret = Ok([k \in RequiredKpiKeys |-> args.kpis.val[k]])
          ELSE KpiDictRejection(ret)
    /\ (op.name = "get_nc_score" /\ args.kpis.given) =>
          IF KpiDictAcceptable
          THEN ret = calculate_nc_score(args.kpis.val["biodiversity"],
                                        args.kpis.val["soil"],
                                        args.kpis.val["water"],
                                        args.kpi_weights)
          ELSE KpiDictRejection(ret)

\* water = 1.5 is rejected by name although an extra key is present
C13_Witness ==
    /\ op.name = "get_nc_score"
    /\ args.kpis.given
    /\ DOMAIN args.kpis.val = KpiInputKeys
    /\ args.kpis.val["biodiversity"] = Half
    /\ args.kpis.val["soil"] = One
    /\ args.kpis.val["water"] = <<3, 2>>
    /\ ret = RaiseNaming("ValueError: KPI must be in [0, 1]", {"water"})

RequestedStats == IF args.stats.given THEN args.stats.val ELSE <<"mean">>
\* the statistic the modulation results are stored under
StoredUnder ==
    IF "mean" \in SeqSet(RequestedStats) THEN "mean" ELSE RequestedStats[1]
ScalarNcScore ==
    calculate_nc_score(args.kpis.val["biodiversity"], args.kpis.val["soil"],
                       args.kpis.val["water"], args.kpi_weights)
\* the entry {statistic: value}
StoredEntry(value) == [k \in {StoredUnder} |-> Some(value)]

\* C14: for an area geometry, valid scalar kpis and every stats list
\* accepted by stats validation, with or without 'mean', get_modulated_eii
\* returns nc_score = calculate_nc_score(KPIs) and eii_modulated =
\* apply_modulation(base EII statistic, nc_score), in [0,1] and not below
\* the base EII when nc_score >= 0.5, both stored under 'mean' when
\* requested and otherwise under the first requested statistic.
C14_ScalarKpiModulation ==
    (/\ ModulatedCalled
     /\ args.geometry_type = "Polygon"
     /\ SourcesGiven = 1 /\ args.kpis.given /\ KpiDictAcceptable
     /\ ScalarNcScore.ok
     /\ _validate_stats_params(args.stats, args.percentiles).ok
     /\ Len(RequestedStats) > 0
     /\ get_layers("eii", args.aggregation_method, args.compute_mode,
                   args.px).ok)
        => /\ ret.ok
           /\ ret.value.values["nc_score"] = StoredEntry(ScalarNcScore.value)
           /\ LET base == ret.value.values["eii"][StoredUnder]
                  modulated ==
                      apply_modulation(base.val, ScalarNcScore.value,
                                       args.modulation_range).value
              IN  /\ base.given
                  /\ ret.value.values["eii_modulated"] = StoredEntry(modulated)
                  /\ InUnit(modulated)
                  /\ RLe(Half, ScalarNcScore.value) => RLe(base.val, modulated)

\* the KPI layers the layer branch works on: the caller's, or the defaults
LayerSourceGiven == args.kpi_layers.given \/ args.compute_default_kpis
KpiPixel(name) ==
    IF args.kpi_layers.given THEN args.kpi_layers.val[name].px
    ELSE args.default_kpis[name]
\* every KPI is 0.5, so that every accepted weight set gives NC = 0.5
NcHalfEverywhere ==
    /\ args.kpi_layers.given => RequiredKpiKeys \subseteq DOMAIN args.kpi_layers.val
    /\ \A name \in RequiredKpiKeys : KpiPixel(name) = Half

\* C28: in get_modulated_eii with kpi_layers or compute_default_kpis, for
\* an area geometry and every accepted aggregation_method and compute_mode,
\* the eii_modulated statistics come from the base EII layer the 'eii'
\* statistics come from: with an NC score of 0.5 everywhere the two sets
\* of statistics are equal.
C28_ModulatedFromSameBase ==
    (/\ ModulatedCalled
     /\ args.geometry_type = "Polygon"
     /\ SourcesGiven = 1 /\ LayerSourceGiven
     /\ NcHalfEverywhere
     /\ ret.ok)
        => ret.value.values["eii_modulated"] = ret.value.values["eii"]

StatsCalled == op.name = "get_stats"
\* the pixel value of the EII layer the statistics are taken from
BaseEiiPixel ==
    get_layers("eii", args.aggregation_method, args.compute_mode,
               args.px).value["eii"].rad
\* what the reducer of a statistic gives on the one-pixel region
ReducerValue(stat) == IF stat = "std" THEN Zero ELSE BaseEiiPixel
RequestedPercentiles ==
    IF Truthy(args.percentiles) THEN SeqSet(args.percentiles.val) ELSE {}

\* C29: for an area geometry, every stats list accepted by
\* _validate_stats_params (repeated names included) and every percentiles
\* list, _format_stats reads the keys the reducer of _build_reducer wrote:
\* every requested statistic and percentile appears in the 'eii' entry
\* with the reducer's value, never missing.
C29_RequestedStatsPresent ==
    (StatsCalled /\ args.geometry_type = "Polygon" /\ ret.ok) =>
        LET entry == ret.value.values["eii"]
        IN  /\ DOMAIN entry =
                  SeqSet(RequestedStats)
                      \cup {PercentileLabel(q) : q \in RequestedPercentiles}
            /\ \A stat \in SeqSet(RequestedStats) :
                  entry[stat] = Some(ReducerValue(stat))
            /\ \A q \in RequestedPercentiles :
                  entry[PercentileLabel(q)] = Some(BaseEiiPixel)

(***************************************************************************)
(* Specification of the asset registry: a caller asks for paths and        *)
(* metadata and changes the dictionary it was handed.                      *)
(***************************************************************************)
\* a list is appended to while it is shorter than MaxBands
MaxBands == 2
\* the heap holds at most MaxObjects list objects
MaxObjects == 5

AssetNameInputs == {"eii", "npp_model", "nonexistent_asset"}
CallerKeys == {"test_key", "path"}

InitAssets ==
    /\ args = [caller |-> "client"]
    /\ op = [name |-> "init"]
    /\ ret = NoResult
    /\ _NPP_DIFF_PERCENTILES_CACHE = None
    /\ ee_calls = <<>>
    /\ AssetsAtImport
    /\ tasks = <<>>

\* path = get_asset_path(asset_name)
GetAssetPath ==
    \E asset_name \in AssetNameInputs :
        /\ op' = [name |-> "get_asset_path", asset_name |-> asset_name]
        /\ ret' = get_asset_path(asset_name, ASSETS)
        /\ UNCHANGED <<args, _NPP_DIFF_PERCENTILES_CACHE, ee_calls,
                       client_assets, tasks>>

\* info = get_asset_info(asset_name)
GetAssetInfo ==
    \E asset_name \in AssetNameInputs :
        /\ op' = [name |-> "get_asset_info", asset_name |-> asset_name]
        /\ ret' = get_asset_info(asset_name, ASSETS)
        /\ info' = IF asset_name \in DOMAIN ASSETS
                   THEN Some(get_asset_info(asset_name, ASSETS).value)
                   ELSE info
        /\ UNCHANGED <<args, _NPP_DIFF_PERCENTILES_CACHE, ee_calls, ASSETS,
                       heap, tasks>>

\* info[key] = "test_value"
SetInfoItem ==
    \E key \in CallerKeys :
        /\ info.given
        /\ op' = [name |-> "info[key] = value", key |-> key]
        /\ info' = Some(SetItem(info.val, key, "test_value"))
        /\ UNCHANGED <<args, ret, _NPP_DIFF_PERCENTILES_CACHE, ee_calls,
                       ASSETS, heap, tasks>>

\* del info["description"]
DelInfoItem ==
    /\ info.given
    /\ "description" \in DOMAIN info.val
    /\ op' = [name |-> "del info[key]", key |-> "description"]
    /\ info' = Some(DelItem(info.val, "description"))
    /\ UNCHANGED <<args, ret, _NPP_DIFF_PERCENTILES_CACHE, ee_calls, ASSETS,
                   heap, tasks>>

\* info["bands"].append("test_band")
AppendBand ==
    /\ info.given
    /\ "bands" \in DOMAIN info.val
    /\ Len(heap[info.val["bands"].ref]) < MaxBands
    /\ op' = [name |-> "info[key].append(value)", key |-> "bands"]
    /\ heap' = [heap EXCEPT ![info.val["bands"].ref] =
                                Append(@, "test_band")]
    /\ UNCHANGED <<args, ret, _NPP_DIFF_PERCENTILES_CACHE, ee_calls, ASSETS,
                   info, tasks>>

\* info["bands"].clear()
ClearBands ==
    /\ info.given
    /\ "bands" \in DOMAIN info.val
    /\ op' = [name |-> "info[key].clear()", key |-> "bands"]
    /\ heap' = [heap EXCEPT ![info.val["bands"].ref] = <<>>]
    /\ UNCHANGED <<args, ret, _NPP_DIFF_PERCENTILES_CACHE, ee_calls, ASSETS,
                   info, tasks>>

\* info["bands"] = ["test_band"]: a new list object
RebindBands ==
    /\ info.given
    /\ Len(heap) < MaxObjects
    /\ op' = [name |-> "info[key] = [value]", key |-> "bands"]
    /\ heap' = Append(heap, <<"test_band">>)
    /\ info' = Some(SetItem(info.val, "bands", Ref(Len(heap) + 1)))
    /\ UNCHANGED <<args, ret, _NPP_DIFF_PERCENTILES_CACHE, ee_calls, ASSETS,
                   tasks>>

NextAssets ==
    \/ GetAssetPath
    \/ GetAssetInfo
    \/ SetInfoItem
    \/ DelInfoItem
    \/ AppendBand
    \/ ClearBands
    \/ RebindBands

SpecAssets == InitAssets /\ [][NextAssets]_vars

\* a dictionary as its reader sees it: the lists in place of the references
Metadata(d, h) ==
    [k \in DOMAIN d |-> IF k = "bands" THEN h[d[k].ref] ELSE d[k]]
\* the metadata of an asset when the module was imported
MetadataAtImport(asset_name) ==
    Metadata(AssetsLiteral[asset_name], HeapAtImport)
KnownAsset == op.asset_name \in DOMAIN AssetsLiteral

\* C21: get_asset_info returns a copy: whatever the caller did to the
\* dictionaries it was handed, get_asset_info returns the metadata of the
\* asset as they were at import and get_asset_path its path; an unknown
\* asset name raises KeyError naming it and the available assets.
C21_AssetInfoIsACopy ==
    /\ op.name = "get_asset_info" =>
          IF KnownAsset
          THEN /\ ret.ok
               /\ Metadata(ret.value, heap) = MetadataAtImport(op.asset_name)
          ELSE ret = UnknownAsset(op.asset_name, AssetKeys)
    /\ op.name = "get_asset_path" =>
          IF KnownAsset
          THEN ret = Ok(Str(AssetsLiteral[op.asset_name]["path"]))
          ELSE ret = UnknownAsset(op.asset_name, AssetKeys)

(***************************************************************************)
(* eii/compute/modulation/biodiversity.py: the biodiversity KPI of a pixel *)
(* whose natural-habitat fraction is given.                                *)
(***************************************************************************)
BIODIVERSITY_MIN_THRESHOLD == Zero
BIODIVERSITY_MAX_THRESHOLD == Half

\* natural_fraction.subtract(min_threshold)
\*     .divide(max_threshold - min_threshold).clamp(0, 1)
calculate_biodiversity_kpi(natural_fraction, minArg, maxArg) ==
    LET min_threshold == IF minArg.given THEN minArg.val
                         ELSE BIODIVERSITY_MIN_THRESHOLD
        max_threshold == IF maxArg.given THEN maxArg.val
                         ELSE BIODIVERSITY_MAX_THRESHOLD
        normalized == EEClamp(EEDivide(RSub(natural_fraction, min_threshold),
                                       RSub(max_threshold, min_threshold)),
                              Zero, One)
    IN  Ok(normalized)

\* the biodiversity layer of get_kpi_layers(geometry,
\* biodiversity_max_threshold)
get_kpi_layers_biodiversity(natural_fraction, biodiversity_max_threshold) ==
    calculate_biodiversity_kpi(natural_fraction, None,
                               Some(biodiversity_max_threshold))

\* fractions are drawn from {0, 1/FractionDen, ..., 1}
FractionDen == 10
\* thresholds are drawn from {0, 1/ThresholdDen, ..., 1}
ThresholdDen == 4

ThresholdArgs == {None} \cup {Some(t) : t \in Grid(ThresholdDen)}

InitBiodiversity ==
    /\ args \in [natural_fraction : Grid(FractionDen),
                 min_threshold : ThresholdArgs,
                 max_threshold : ThresholdArgs]
    /\ op = [name |-> "init"]
    /\ ret = NoResult
    /\ _NPP_DIFF_PERCENTILES_CACHE = None
    /\ ee_calls = <<>>
    /\ AssetsAtImport
    /\ tasks = <<>>

CalculateBiodiversityKpi ==
    /\ op' = [name |-> "calculate_biodiversity_kpi"]
    /\ ret' = calculate_biodiversity_kpi(args.natural_fraction,
                                         args.min_threshold,
                                         args.max_threshold)
    /\ UNCHANGED <<args, _NPP_DIFF_PERCENTILES_CACHE, ee_calls,
                   client_assets, tasks>>

\* get_kpi_layers passes its max threshold and leaves the minimum at its
\* default
GetKpiLayersBiodiversity ==
    /\ args.max_threshold.given
    /\ op' = [name |-> "get_kpi_layers"]
    /\ ret' = get_kpi_layers_biodiversity(args.natural_fraction,
                                          args.max_threshold.val)
    /\ UNCHANGED <<args, _NPP_DIFF_PERCENTILES_CACHE, ee_calls,
                   client_assets, tasks>>

NextBiodiversity == CalculateBiodiversityKpi \/ GetKpiLayersBiodiversity

SpecBiodiversity == InitBiodiversity /\ [][NextBiodiversity]_vars

\* the thresholds the call works with
MinThresholdUsed ==
    IF op.name = "calculate_biodiversity_kpi" /\ args.min_threshold.given
    THEN args.min_threshold.val ELSE BIODIVERSITY_MIN_THRESHOLD
MaxThresholdUsed ==
    IF args.max_threshold.given THEN args.max_threshold.val
    ELSE BIODIVERSITY_MAX_THRESHOLD
\* the KPI the same call gives another fraction
KpiAt(fraction) ==
    calculate_biodiversity_kpi(fraction, Some(MinThresholdUsed),
                               Some(MaxThresholdUsed)).value
BiodiversityCalled ==
    op.name \in {"calculate_biodiversity_kpi", "get_kpi_layers"}

\* C22: for every natural-habitat fraction in [0,1] and every threshold
\* pair the caller configures, the biodiversity KPI is in [0,1], is not
\* below the KPI of any smaller fraction, and is 1 once the fraction has
\* reached max_threshold.
C22_BiodiversityKpi ==
    BiodiversityCalled =>
        /\ ret.ok
        /\ InUnit(ret.value)
        /\ \A smaller \in Grid(FractionDen) :
              RLe(smaller, args.natural_fraction)
                  => RLe(KpiAt(smaller), ret.value)
        /\ RLe(MaxThresholdUsed, args.natural_fraction) => ret.value = One

(***************************************************************************)
(* eii/compute/structural.py.  The landscape is a row of pixels of the     *)
(* human-modification index (HMI); a kernel of radius r around pixel i     *)
(* covers the pixels of the row at distance at most r.                     *)
(***************************************************************************)
HMI_THRESHOLD == <<2, 5>>
MAX_QUALITY_WEIGHT == <<4, 1>>

\* image.where(test, value)
Where(image, test, value) == IF test THEN value ELSE image

\* a class image that applies its tests from pristine to semi-natural, so
\* that the last matching test wins
_create_quality_class_reversed(hmi) ==
    LET q0 == 0
        q1 == Where(q0, RLt(hmi, <<1, 10>>), 4)
        q2 == Where(q1, RLt(hmi, <<1, 5>>), 3)
        q3 == Where(q2, RLt(hmi, <<3, 10>>), 2)
        q4 == Where(q3, RLt(hmi, <<2, 5>>), 1)
    IN  q4

_create_quality_class(hmi) ==
    LET q0 == 0
        q1 == Where(q0, RLt(hmi, <<2, 5>>), 1)
        q2 == Where(q1, RLt(hmi, <<3, 10>>), 2)
        q3 == Where(q2, RLt(hmi, <<1, 5>>), 3)
        q4 == Where(q3, RLt(hmi, <<1, 10>>), 4)
    IN  q4

\* the pixels of the row a kernel of the given radius covers around pixel i
Kernel(row, i, radius) ==
    {j \in DOMAIN row : j >= i - radius /\ j <= i + radius}

\* image.focal_min(radius) of a 0/1 image
focal_min(image, radius) ==
    [i \in DOMAIN image |->
        IF \A j \in Kernel(image, i, radius) : image[j] = 1 THEN 1 ELSE 0]

RECURSIVE SumFrom(_, _)
SumFrom(image, i) ==
    IF i > Len(image) THEN 0 ELSE image[i] + SumFrom(image, i + 1)

\* image.reduceNeighborhood(ee.Reducer.mean(), kernel): the mean of the
\* pixels under the kernel, zeros included
NeighborhoodMean(image, radius) ==
    [i \in DOMAIN image |->
        LET under == Kernel(image, i, radius)
            inside == [j \in DOMAIN image |->
                          IF j \in under THEN image[j] ELSE 0]
        IN  Norm(<<SumFrom(inside, 1), Cardinality(under)>>)]

calculate_structural_integrity(hmi, edge_depth, neighborhood) ==
    LET habitat_binary == [i \in DOMAIN hmi |->
                              IF RLt(hmi[i], HMI_THRESHOLD) THEN 1 ELSE 0]
        core_habitat == focal_min(habitat_binary, edge_depth)
        quality_class == [i \in DOMAIN hmi |-> _create_quality_class(hmi[i])]
        weighted_core == [i \in DOMAIN hmi |->
                             core_habitat[i] * quality_class[i]]
        mean == NeighborhoodMean(weighted_core, neighborhood)
    IN  Ok([i \in DOMAIN hmi |-> EEDivide(mean[i], MAX_QUALITY_WEIGHT)])

\* the row has RowLen pixels
RowLen == 3
\* HMI values: 0.05, 0.1, ..., 0.4 (every class limit and a value inside
\* every class) and 1
HmiValues == {Norm(<<k, 20>>) : k \in 1..8} \cup {One}
\* kernel radii in pixels: the pixel alone, or with its neighbours
Radii == {0, 1}

InitStructural ==
    /\ args \in [hmi : [1..RowLen -> HmiValues],
                 edge_depth : Radii,
                 neighborhood : Radii]
    /\ op = [name |-> "init"]
    /\ ret = NoResult
    /\ _NPP_DIFF_PERCENTILES_CACHE = None
    /\ ee_calls = <<>>
    /\ AssetsAtImport
    /\ tasks = <<>>

CreateQualityClass ==
    \E i \in 1..RowLen :
        /\ op' = [name |-> "_create_quality_class", pixel |-> i]
        /\ ret' = Ok(<<_create_quality_class(args.hmi[i]), 1>>)
        /\ UNCHANGED <<args, _NPP_DIFF_PERCENTILES_CACHE, ee_calls,
                       client_assets, tasks>>

CalculateStructuralIntegrity ==
    /\ op' = [name |-> "calculate_structural_integrity", pixel |-> 0]
    /\ ret' = calculate_structural_integrity(args.hmi, args.edge_depth,
                                             args.neighborhood)
    /\ UNCHANGED <<args, _NPP_DIFF_PERCENTILES_CACHE, ee_calls,
                   client_assets, tasks>>

NextStructural == CreateQualityClass \/ CalculateStructuralIntegrity

SpecStructural == InitStructural /\ [][NextStructural]_vars

\* the class the documentation gives an HMI value
DocumentedClass(hmi) ==
    IF RLt(hmi, <<1, 10>>) THEN 4
    ELSE IF RLt(hmi, <<1, 5>>) THEN 3
    ELSE IF RLt(hmi, <<3, 10>>) THEN 2
    ELSE IF RLt(hmi, <<2, 5>>) THEN 1
    ELSE 0
\* a pixel is habitat when its HMI is below 0.4, and core when every pixel
\* within the edge depth is habitat
IsHabitat(i) == RLt(args.hmi[i], <<2, 5>>)
IsCore(i) ==
    \A j \in 1..RowLen :
        (j >= i - args.edge_depth /\ j <= i + args.edge_depth) => IsHabitat(j)
\* the weighted core value of a pixel
WeightedCore(i) == IF IsCore(i) THEN DocumentedClass(args.hmi[i]) ELSE 0
Neighbours(i) ==
    {j \in 1..RowLen :
        j >= i - args.neighborhood /\ j <= i + args.neighborhood}
RECURSIVE SumOfWeightedCore(_)
SumOfWeightedCore(S) ==
    IF S = {} THEN 0
    ELSE LET j == CHOOSE x \in S : TRUE
         IN  WeightedCore(j) + SumOfWeightedCore(S \ {j})

\* C23: the quality class is 4 for HMI < 0.1, 3 for [0.1, 0.2), 2 for
\* [0.2, 0.3), 1 for [0.3, 0.4) and 0 from 0.4 on, never higher for a
\* higher HMI; the weighted core value is 0 for a pixel that is not habitat
\* or not core and the class, in 1..4, for a core pixel; the structural
\* integrity of a pixel is the sum of the weighted core values of its
\* neighbourhood divided by the number of pixels of the neighbourhood,
\* zeros counted, and by 4, and it is in [0,1].
C23_QualityWeightedCore ==
    /\ op.name = "_create_quality_class" =>
          /\ ret = Ok(<<DocumentedClass(args.hmi[op.pixel]), 1>>)
          /\ \A j \in 1..RowLen :
                RLe(args.hmi[op.pixel], args.hmi[j])
                    => _create_quality_class(args.hmi[j]) <= ret.value[1]
    /\ op.name = "calculate_structural_integrity" =>
          /\ ret.ok
          /\ \A i \in 1..RowLen :
                /\ IsCore(i) => WeightedCore(i) \in 1..4
                /\ ret.value[i] =
                       Norm(<<SumOfWeightedCore(Neighbours(i)),
                              4 * Cardinality(Neighbours(i))>>)
                /\ InUnit(ret.value[i])

\* a row with a pristine core pixel next to a semi-natural one and a
\* modified one: only the first pixel is core, the mean counts the zeros
C23_Witness ==
    /\ op.name = "calculate_structural_integrity"
    /\ args.hmi = << <<1, 20>>, <<3, 10>>, <<1, 1>> >>
    /\ args.edge_depth = 1
    /\ args.neighborhood = 1
    /\ ret = Ok(<< <<1, 2>>, <<1, 3>>, <<0, 1>> >>)

(***************************************************************************)
(* eii/compute/modulation/water.py.  One pixel of the SoilGrids sand and   *)
(* clay images (g/kg, one band per depth layer) and of the available water *)
(* capacity image (AWC, vol%).                                             *)
(***************************************************************************)
AWC_BASE_MAX == <<25, 1>>
AWC_MIN_BOUND == <<8, 1>>
AWC_MAX_BOUND == <<28, 1>>
AWC_BASE_MIN == <<5, 1>>
AWC_MIN_MIN_BOUND == <<0, 1>>
AWC_MIN_MAX_BOUND == <<12, 1>>
AWC_OPTIMAL_SAND == <<35, 1>>
AWC_OPTIMAL_CLAY == <<25, 1>>
AWC_SAND_PENALTY == <<1, 200>>
AWC_CLAY_PENALTY == <<1, 125>>

\* the sand or clay content, in percent, the texture bounds use for a depth:
\* the thickness-weighted mean of the three top layers for "0-30cm", the
\* band of the layer otherwise; SoilGrids stores g/kg
TextureAtDepth(source, depth) ==
    LET selected ==
            IF depth = "0-30cm"
            THEN EEDivide(RAdd(RAdd(RMul(source["0-5cm"], <<5, 1>>),
                                    RMul(source["5-15cm"], <<10, 1>>)),
                               RMul(source["15-30cm"], <<15, 1>>)),
                          <<30, 1>>)
            ELSE source[depth]
    IN  EEDivide(selected, <<10, 1>>)

sand_penalty(depth, sand_source) ==
    RMul(RPow(RSub(TextureAtDepth(sand_source, depth), AWC_OPTIMAL_SAND), 2),
         AWC_SAND_PENALTY)

clay_penalty(depth, clay_source) ==
    RMul(RPow(RSub(TextureAtDepth(clay_source, depth), AWC_OPTIMAL_CLAY), 2),
         AWC_CLAY_PENALTY)

_get_min_awc_by_texture(depth, sand_source, clay_source) ==
    EEClamp(RSub(RSub(AWC_BASE_MIN, sand_penalty(depth, sand_source)),
                 clay_penalty(depth, clay_source)),
            AWC_MIN_MIN_BOUND, AWC_MIN_MAX_BOUND)

\* a maximum that is not clamped to the texture bounds
_get_max_awc_by_texture_unclamped(depth, sand_source, clay_source) ==
    RSub(RSub(AWC_BASE_MAX, sand_penalty(depth, sand_source)),
         clay_penalty(depth, clay_source))

_get_max_awc_by_texture(depth, sand_source, clay_source) ==
    EEClamp(RSub(RSub(AWC_BASE_MAX, sand_penalty(depth, sand_source)),
                 clay_penalty(depth, clay_source)),
            AWC_MIN_BOUND, AWC_MAX_BOUND)

\* awc is the pixel of _get_awc(depth)
calculate_water_kpi(depth, awc, sand_source, clay_source) ==
    LET max_awc == _get_max_awc_by_texture(depth, sand_source, clay_source)
        min_awc == _get_min_awc_by_texture(depth, sand_source, clay_source)
    IN  Ok(EEClamp(EEDivide(RSub(awc, min_awc), RSub(max_awc, min_awc)),
                   Zero, One))

\* sand and clay contents of a layer, in g/kg: none, the optimum of the
\* texture (350 g/kg sand, 250 g/kg clay) and pure sand or clay
SandValues == {<<0, 1>>, <<350, 1>>, <<1000, 1>>}
ClayValues == {<<0, 1>>, <<250, 1>>, <<1000, 1>>}
SoilLayers == {"0-5cm", "5-15cm", "15-30cm"}
Depths == SoilLayers \cup {"0-30cm"}
\* values of the AWC pixel, in vol%: the Saxton & Rawls regression is not
\* bounded, so a value below 0 and one above every maximum are included
AwcValues == {<<-5, 1>>, <<8, 1>>, <<15, 1>>, <<25, 1>>, <<30, 1>>}

InitWater ==
    /\ args \in [sand_source : [SoilLayers -> SandValues],
                 clay_source : [SoilLayers -> ClayValues]]
    /\ op = [name |-> "init", depth |-> "0-30cm", awc |-> Zero]
    /\ ret = NoResult
    /\ _NPP_DIFF_PERCENTILES_CACHE = None
    /\ ee_calls = <<>>
    /\ AssetsAtImport
    /\ tasks = <<>>

GetMinAwcByTexture ==
    \E depth \in Depths :
        /\ op' = [name |-> "_get_min_awc_by_texture", depth |-> depth,
                  awc |-> Zero]
        /\ ret' = Ok(_get_min_awc_by_texture(depth, args.sand_source,
                                             args.clay_source))
        /\ UNCHANGED <<args, _NPP_DIFF_PERCENTILES_CACHE, ee_calls,
                       client_assets, tasks>>

GetMaxAwcByTexture ==
    \E depth \in Depths :
        /\ op' = [name |-> "_get_max_awc_by_texture", depth |-> depth,
                  awc |-> Zero]
        /\ ret' = Ok(_get_max_awc_by_texture(depth, args.sand_source,
                                             args.clay_source))
        /\ UNCHANGED <<args, _NPP_DIFF_PERCENTILES_CACHE, ee_calls,
                       client_assets, tasks>>

CalculateWaterKpi ==
    \E depth \in Depths, awc \in AwcValues :
        /\ op' = [name |-> "calculate_water_kpi", depth |-> depth,
                  awc |-> awc]
        /\ ret' = calculate_water_kpi(depth, awc, args.sand_source,
                                      args.clay_source)
        /\ UNCHANGED <<args, _NPP_DIFF_PERCENTILES_CACHE, ee_calls,
                       client_assets, tasks>>

NextWater == GetMinAwcByTexture \/ GetMaxAwcByTexture \/ CalculateWaterKpi

SpecWater == InitWater /\ [][NextWater]_vars

\* the texture bounds of the pixel at the depth of the last call
MaxAwc == _get_max_awc_by_texture(op.depth, args.sand_source, args.clay_source)
MinAwc == _get_min_awc_by_texture(op.depth, args.sand_source, args.clay_source)

\* C30: for every sand and clay content the maximum AWC is in [8,25], the
\* minimum AWC is in [0,5] and they are at least 8 apart, so the divisor of
\* the water KPI is not zero; the water KPI is in [0,1] and is 1 when the
\* AWC is at least the maximum AWC of the pixel.
C30_WaterKpiBounds ==
    /\ op.name = "_get_max_awc_by_texture" =>
          /\ ret.ok
          /\ RLe(<<8, 1>>, ret.value)
          /\ RLe(ret.value, <<25, 1>>)
    /\ op.name = "_get_min_awc_by_texture" =>
          /\ ret.ok
          /\ RLe(Zero, ret.value)
          /\ RLe(ret.value, <<5, 1>>)
    /\ op.name = "calculate_water_kpi" =>
          /\ RLe(<<8, 1>>, RSub(MaxAwc, MinAwc))
          /\ ret.ok
          /\ InUnit(ret.value)
          /\ RLe(MaxAwc, op.awc) => ret.value = One

\* pure sand: both bounds are clamped (8 and 0) and the AWC equals the
\* maximum
C30_Witness ==
    /\ op.name = "calculate_water_kpi"
    /\ \A layer \in SoilLayers :
          /\ args.sand_source[layer] = <<1000, 1>>
          /\ args.clay_source[layer] = Zero
    /\ MaxAwc = <<8, 1>>
    /\ MinAwc = Zero
    /\ op.awc = <<8, 1>>
    /\ ret = Ok(One)

(***************************************************************************)
(* eii/_utils/gee.py wait_for_tasks and eii/utils/gee.py                   *)
(* wait_for_completion.  tasks maps a task id to the state Earth Engine    *)
(* reports for it; the export tasks have been started, as in               *)
(* predict_npp_tiled_batch_optimized, so every task begins READY.  The     *)
(* functions return None: ret holds what their last pass printed.          *)
(***************************************************************************)
\* at most MaxTasks tasks are monitored
MaxTasks == 2

\* a started task runs and completes or fails, or is cancelled: the
\* cancellation is requested first and takes effect later
TaskSuccessors(state) ==
    CASE state = "READY" -> {"RUNNING", "CANCEL_REQUESTED"}
      [] state = "RUNNING" -> {"COMPLETED", "FAILED", "CANCEL_REQUESTED"}
      [] state = "CANCEL_REQUESTED" -> {"CANCELLED"}
      [] OTHER -> {}

\* the number of elements of a sequence of states that are in a set
RECURSIVE CountIn(_, _)
CountIn(status, states) ==
    IF status = <<>> THEN 0
    ELSE (IF Head(status) \in states THEN 1 ELSE 0) + CountIn(Tail(status), states)

\* what one pass of a loop prints: the counts, and the closing line when
\* the function returns
Printed(total, active, completed, failed, closing) ==
    [total |-> total, active |-> active, completed |-> completed, failed |-> failed, closing |-> closing]

\* the body of the loop of wait_for_tasks once every status is read
wait_for_tasks_decide(statuses) ==
    LET active == CountIn(statuses, {"READY", "RUNNING"})
        completed == CountIn(statuses, {"COMPLETED"})
        failed == CountIn(statuses, {"FAILED", "CANCELLED"})
    IN  IF active = 0
        THEN [pc |-> "returned",
              printed |-> Printed(Len(statuses), active, completed, failed,
                                  IF failed > 0 THEN "Warning: tasks failed"
                                  ELSE "All tasks completed successfully")]
        ELSE [pc |-> "sleep",
              printed |-> Printed(Len(statuses), active, completed, failed, "")]

\* the body of the loop of wait_for_completion
wait_for_completion_decide(status) ==
    LET failed == CountIn(status, {"FAILED"})
        completed == CountIn(status, {"COMPLETED"})
        active == CountIn(status, {"RUNNING", "READY"})
    IN  IF active = 0
        THEN [pc |-> "returned",
              printed |-> Printed(Len(status), active, completed, failed,
                                  IF failed > 0
                                  THEN "All active tasks have finished, but tasks failed."
                                  ELSE "All tasks completed successfully.")]
        ELSE [pc |-> "sleep",
              printed |-> Printed(Len(status), active, completed, failed, "")]

InitWait ==
    /\ args \in {[task_ids |-> [i \in 1..n |-> i]] : n \in 1..MaxTasks}
    /\ op = [name |-> "init", pc |-> "idle", statuses |-> <<>>]
    /\ ret = NoResult
    /\ _NPP_DIFF_PERCENTILES_CACHE = None
    /\ ee_calls = <<>>
    /\ AssetsAtImport
    /\ tasks = [t \in 1..MaxTasks |-> "READY"]

\* wait_for_tasks(task_ids) is called and enters its loop
CallWaitForTasks ==
    /\ op.pc \in {"idle", "returned"}
    /\ op' = [name |-> "wait_for_tasks", pc |-> "poll", statuses |-> <<>>]
    /\ ret' = NoResult
    /\ UNCHANGED <<args, _NPP_DIFF_PERCENTILES_CACHE, ee_calls,
                   client_assets, tasks>>

\* one ee.data.getTaskStatus(tid) of the list comprehension; the last one is
\* followed by the counts, the print and the test of active
GetTaskStatus ==
    /\ op.name = "wait_for_tasks"
    /\ op.pc = "poll"
    /\ Len(op.statuses) < Len(args.task_ids)
    /\ LET tid == args.task_ids[Len(op.statuses) + 1]
           statuses == Append(op.statuses, tasks[tid])
           decided == wait_for_tasks_decide(statuses)
       IN  IF Len(statuses) < Len(args.task_ids)
           THEN /\ op' = [op EXCEPT !.statuses = statuses]
                /\ ret' = ret
           ELSE /\ op' = [op EXCEPT !.pc = decided.pc, !.statuses = statuses]
                /\ ret' = Ok(decided.printed)
    /\ UNCHANGED <<args, _NPP_DIFF_PERCENTILES_CACHE, ee_calls,
                   client_assets, tasks>>

\* wait_for_completion(id_list=task_ids) is called and enters its loop
CallWaitForCompletion ==
    /\ op.pc \in {"idle", "returned"}
    /\ op' = [name |-> "wait_for_completion", pc |-> "poll",
              statuses |-> <<>>]
    /\ ret' = NoResult
    /\ UNCHANGED <<args, _NPP_DIFF_PERCENTILES_CACHE, ee_calls,
                   client_assets, tasks>>

\* get_status(id_list), one request for all the tasks, and the rest of the
\* loop body
GetStatus ==
    /\ op.name = "wait_for_completion"
    /\ op.pc = "poll"
    /\ LET status == [i \in 1..Len(args.task_ids) |-> tasks[args.task_ids[i]]]
           decided == wait_for_completion_decide(status)
       IN  /\ op' = [op EXCEPT !.pc = decided.pc, !.statuses = status]
           /\ ret' = Ok(decided.printed)
    /\ UNCHANGED <<args, _NPP_DIFF_PERCENTILES_CACHE, ee_calls,
                   client_assets, tasks>>

\* time.sleep(poll_interval) is over and the loop starts again
Sleep ==
    /\ op.pc = "sleep"
    /\ op' = [op EXCEPT !.pc = "poll", !.statuses = <<>>]
    /\ UNCHANGED <<args, ret, _NPP_DIFF_PERCENTILES_CACHE, ee_calls,
                   client_assets, tasks>>

\* Earth Engine moves a task to a next state
TaskProgress ==
    \E t \in DOMAIN tasks :
        \E state \in TaskSuccessors(tasks[t]) :
            /\ tasks' = [tasks EXCEPT ![t] = state]
            /\ UNCHANGED <<args, op, ret, _NPP_DIFF_PERCENTILES_CACHE,
                           ee_calls, client_assets>>

NextWait ==
    \/ CallWaitForTasks
    \/ GetTaskStatus
    \/ CallWaitForCompletion
    \/ GetStatus
    \/ Sleep
    \/ TaskProgress

SpecWait == InitWait /\ [][NextWait]_vars

\* the states in which a task has finished
FinishedStates == {"COMPLETED", "FAILED", "CANCELLED"}
Monitored == {args.task_ids[i] : i \in 1..Len(args.task_ids)}

\* C26: wait_for_tasks and wait_for_completion return only when every
\* monitored task is COMPLETED, FAILED or CANCELLED; while a task is in
\* another state they keep polling.
C26_ReturnsOnlyWhenFinished ==
    op.pc = "returned" => \A t \in Monitored : tasks[t] \in FinishedStates

====
